---- MODULE Spec2Model ----
(***************************************************************************)
(* gorsepoll, the feed poller of gorse (src/cmd/gorsepoll/gorsepoll.go,    *)
(* the version at lines 1-760), with the tables of the schema it writes    *)
(* (rss_feed, rss_item, rss_item_state) and the helpers of package gorse   *)
(* it calls (src/gorse.go).                                                *)
(*                                                                         *)
(* One run of the program is main(): retrieveFeeds, then processFeeds over *)
(* the feeds in order.  Every SQL statement and every HTTP fetch is one    *)
(* step; a statement may fail (connection loss, constraint violation).     *)
(***************************************************************************)
EXTENDS Integers, Sequences, FiniteSets, TLC

\* ------------------------------------------------------------------------
\* Bounds of the model.

\* Number of runs of the program (cron invocations) explored.
MaxRuns == 2

\* Last instant of the clock.
MaxTime == 3

\* Most <link> elements below one element of a document given to the parser
\* on its own, and most <entry> elements of such a document.
MaxLinks == 2

MaxEntries == 2

\* Longest text given to the sanitiser on its own.
MaxText == 4

\* Most characters of a string given to substr on its own.
MaxChars == 3

\* ------------------------------------------------------------------------
\* Values.

\* SQL NULL in a timestamp column / a nil *time.Time.
NullTime == -1

\* Go's zero time.Time{}: before every real instant.
ZeroTime == 0

\* First instant of the clock.
StartTime == 2

\* SQL NULL in the guid column / a nil *string.
NullGuid == "NULL"

\* The bytes every document must begin with, `<?xml version="1.0" encoding="`,
\* cut in three pieces; a buffer is the sequence of its pieces.
prefix == << "<?xml", " version=1.0", " encoding=" >>

\* The first bytes of a document that has the XML declaration, and of an HTML
\* page.
XMLHeader == prefix \o << "UTF-8?>" >>

HTMLHeader == << "<!DOCTYPE", " html>", "<html>", "<body>" >>

\* The namespace of Atom.
AtomNS == "http://www.w3.org/2005/Atom"

\* No payload stored yet in rss_feed.last_payload.
NullPayload == [header |-> << >>, xmlns |-> "", root |-> "NULL", links |-> << >>,
                items |-> << >>]

\* The rows of rss_feed by id, and their names; <<1, 2, 3>> is the rows in
\* ORDER BY name.
AllFeeds == {1, 2, 3}

FeedName == [f \in AllFeeds |-> IF f = 1 THEN "a" ELSE IF f = 2 THEN "b" ELSE "c"]

\* The column active of rss_feed; no statement of the poller writes it.
Active(f) == f # 3

\* retrieveFeeds without its WHERE clause.
FeedOrder_All == <<1, 2, 3>>

\* retrieveFeeds: SELECT ... FROM rss_feed WHERE active = true ORDER BY name.
FeedOrder == SelectSeq(<<1, 2, 3>>, Active)

\* The feeds retrieveFeeds returns.
Feeds == {FeedOrder[i] : i \in 1..Len(FeedOrder)}

\* The values of the flag -feed-name in the runs explored: not given, or the
\* name of the feed that is not active.
SingleFeeds == {"", FeedName[3]}

\* update_frequency_seconds of the feeds.
UpdateFrequencySeconds == [f \in Feeds |-> 1]

\* The single user of the poller.
userID == 1

\* An Item of a Channel.
ChannelItem(t, l, d, p, g) ==
  [Title |-> t, Link |-> l, Description |-> d, PubDate |-> p, GUID |-> g]

\* An item, of which the poller reads the link, the guid and the date.
Item(l, g, p) == ChannelItem("", l, "", p, g)

\* A document: the first bytes of the buffer, and what the XML decoder finds
\* in it: the namespace and the name of the root element ("" when the buffer
\* holds no element and Decode fails), the <link> elements below the root with
\* their attributes, and the <item> or <entry> elements.
Document(h, ns, r, ls, is) ==
  [header |-> h, xmlns |-> ns, root |-> r, links |-> ls, items |-> is]

\* An RSS or RDF document with these <item> elements, with the XML
\* declaration or as the body of an HTML page.
Feed(h, r, is) ==
  Document(IF h THEN XMLHeader ELSE HTMLHeader, "", r, << >>, is)

\* What a function of the parser returns, (*Channel, error): err is
\* "error is not nil", msg and causes are the text of the error and the errors
\* it was formatted from; Link and Items are the Channel.
ParseError(m, c) ==
  [err |-> TRUE, msg |-> m, causes |-> c, Link |-> "", Items |-> << >>]

Parsed(l, is) ==
  [err |-> FALSE, msg |-> "", causes |-> << >>, Link |-> l, Items |-> is]

\* What the server of a feed may answer: a body without XML header, and RSS
\* documents with these items (link, guid, publication date).
Payloads(f) ==
  IF f = 1
  THEN { Feed(FALSE, "rss", << >>),
         Feed(TRUE, "rss", << Item("a", "", 1), Item("b", "", 3) >>),
         Feed(TRUE, "rss", << Item("a", "", 1), Item("a", "", 3) >>),
         Feed(TRUE, "rss", << Item("a", "g1", 1), Item("b", "g1", 3) >>),
         Feed(TRUE, "rss", << Item("", "g1", 1), Item("b", "", 3) >>),
         Feed(TRUE, "rss", << Item("b", "g1", 3) >>),
         Feed(TRUE, "rss", << Item("b", "g2", 3) >>) }
  ELSE { Feed(TRUE, "rss", << Item("a", "", 1) >>) }

\* No HTTP response received (yet).
NoResponse == 0

\* What httpClient.Get returns without error: a status code and a body.  A
\* server may send a feed document along with a status that is not 2xx.
Responses(f) ==
  { [StatusCode |-> 200, Body |-> b] : b \in Payloads(f) }
    \cup (IF f = 1
          THEN { [StatusCode |-> 404,
                  Body |-> Feed(TRUE, "rss", << Item("b", "g2", 3) >>)] }
          ELSE {})

\* A row feed 1 may hold from the polls before GUIDs were tracked, which its
\* archive mode has set read.
OldRow == [id |-> 1, rss_feed_id |-> 1, title |-> "", description |-> "",
           link |-> "b", guid |-> NullGuid, publication_date |-> 3]

OldRowState == [item_id |-> 1, user_id |-> userID, state |-> "read"]

\* How the run finds feed 1: just added and never polled; polled, without a
\* row; polled in archive mode, with the old row.
Installations ==
  { [last_update_time |-> NullTime, archive |-> FALSE, old |-> FALSE],
    [last_update_time |-> StartTime, archive |-> FALSE, old |-> FALSE],
    [last_update_time |-> StartTime, archive |-> TRUE, old |-> TRUE] }

\* ------------------------------------------------------------------------
\* State.

VARIABLES
  rss_feed,               \* table rss_feed: last_update_time, last_payload, archive
  rss_item,               \* table rss_item: set of rows
  rss_item_state,         \* table rss_item_state: set of rows
  rss_item_id_seq,        \* the SERIAL sequence of rss_item.id
  now,                    \* the clock (time.Now())
  runs,                   \* runs of the program started so far
  pc,                     \* position of the running program
  ignorePollTimes,        \* flag -ignore-poll-times of the run
  ignorePublicationTimes, \* flag -ignore-publication-times of the run
  feeds,                  \* the []DBFeed read by retrieveFeeds
  fi,                     \* index in FeedOrder of the feed being processed
  status,                 \* what the run logged per feed
  updateTime,             \* processFeeds: updateTime
  xmlData,                \* updateFeed: xmlData
  channel,                \* updateFeed: channel.Items
  cutoffTime,             \* updateFeed: cutoffTime
  ii,                     \* updateFeed: index of the item in the loop
  recordedCount,          \* updateFeed: recordedCount
  id,                     \* recordFeedItem: id returned by the INSERT
  feedsUpdated,           \* processFeeds: feedsUpdated
  repeated,               \* history: xmlData is the body of the feed's previous cycle
  httpResponse,           \* retrieveFeed: httpResponse.StatusCode
  lastCycle,              \* history: how the latest cycle of each feed ended
  decoder,                \* a call of rss.ParseFeedXML on its own
  sanitiser,              \* a call of sanitiseItemText on its own
  readCalls,              \* history: the latest DBSetItemReadState per (item, user)
  pollers,                \* two runs of the program at the same time
  substrCall,             \* a call of substr on its own
  webapp,                 \* the web application: DB, DBLock and its request goroutines
  orderings               \* updateFeed run on two orderings of one batch

dbvars == <<rss_feed, rss_item, rss_item_state, rss_item_id_seq>>

runvars == <<runs, ignorePollTimes, ignorePublicationTimes, feeds>>

cyclevars == <<updateTime, xmlData, channel, cutoffTime, ii, recordedCount, id,
               repeated, httpResponse>>

vars == <<rss_feed, rss_item, rss_item_state, rss_item_id_seq, now, runs, pc,
          ignorePollTimes, ignorePublicationTimes, feeds, fi, status,
          updateTime, xmlData, channel, cutoffTime, ii, recordedCount, id,
          feedsUpdated, repeated, httpResponse, lastCycle, decoder, sanitiser,
          readCalls, pollers, substrCall, webapp, orderings>>

\* What the poller run on its own leaves alone.
auxvars == <<decoder, sanitiser, readCalls, pollers, substrCall, webapp,
             orderings>>

\* The table rss_item_archive, which the queries still read: its rows were
\* moved into rss_item and the table emptied.
rss_item_archive == {}

\* The feed being processed.
feed == FeedOrder[fi]

\* The item of the loop of updateFeed.
item == channel[ii]

\* The tables before the first run.
InitDB ==
  /\ \E inst \in Installations :
       /\ rss_feed = [f \in AllFeeds |->
                        IF f = 1
                        THEN [last_update_time |-> inst.last_update_time,
                              last_payload |-> NullPayload,
                              archive |-> inst.archive]
                        ELSE [last_update_time |->
                                IF Active(f) THEN StartTime ELSE NullTime,
                              last_payload |-> NullPayload,
                              archive |-> FALSE]]
       /\ rss_item = (IF inst.old THEN {OldRow} ELSE {})
       /\ rss_item_state = (IF inst.old THEN {OldRowState} ELSE {})
       /\ rss_item_id_seq = (IF inst.old THEN 2 ELSE 1)

\* The program before its first run.
InitRun ==
  /\ now = StartTime
  /\ runs = 0
  /\ pc = "idle"
  /\ ignorePollTimes = FALSE
  /\ ignorePublicationTimes = FALSE
  /\ feeds = [f \in Feeds |-> [LastUpdateTime |-> rss_feed[f].last_update_time,
                               Archive |-> rss_feed[f].archive]]
  /\ fi = 1
  /\ status = [f \in Feeds |-> "pending"]
  /\ updateTime = ZeroTime
  /\ xmlData = NullPayload
  /\ channel = << >>
  /\ cutoffTime = ZeroTime
  /\ ii = 1
  /\ recordedCount = 0
  /\ id = 0
  /\ feedsUpdated = 0
  /\ repeated = FALSE
  /\ httpResponse = NoResponse
  /\ lastCycle = [f \in Feeds |-> [outcome |-> "none",
                                   ignorePublicationTimes |-> FALSE]]

\* No call of the parser on its own.
NoDecoder == [pc |-> "none", data |-> NullPayload, attempts |-> << >>,
              errRSS |-> Parsed("", << >>), errRDF |-> Parsed("", << >>),
              errAtom |-> Parsed("", << >>), ret |-> Parsed("", << >>)]

\* No call of the sanitiser on its own.
NoSanitiser == [pc |-> "none", in |-> << >>, text |-> << >>]

\* No second run.
NoPollers == << >>

\* No call of substr on its own.
NoSubstr == [pc |-> "none", s |-> << >>, n |-> 0, ret |-> << >>]

\* The web application is not running.
NoWebapp == << >>

\* No orderings of a batch are being compared.
NoOrderings == << >>

Init ==
  /\ InitDB
  /\ InitRun
  /\ decoder = NoDecoder
  /\ sanitiser = NoSanitiser
  /\ substrCall = NoSubstr
  /\ webapp = NoWebapp
  /\ orderings = NoOrderings
  /\ readCalls = << >>
  /\ pollers = NoPollers


\* ------------------------------------------------------------------------
\* The feed parser (rss.ParseFeedXML, as in src/gorselib/decode.go).

\* strings.ToLower on the names of root elements.
ToLower(str) ==
  CASE str = "RSS" -> "rss"
    [] str = "RDF" -> "rdf"
    [] str = "FEED" -> "feed"
    [] OTHER -> str

\* Variant: a buffer shorter than the prefix passes when it is a prefix of it.
looksLikeXML_NoLength(data) ==
  IF \E i \in 1..Len(prefix) :
       i <= Len(data.header) /\ data.header[i] # prefix[i]
  THEN ParseError("buffer does not have XML header", << >>)
  ELSE Parsed("", << >>)

looksLikeXML(data) ==
  IF Len(data.header) < Len(prefix)
  THEN ParseError("buffer is too short to have XML header", << >>)
  ELSE IF \E i \in 1..Len(prefix) : data.header[i] # prefix[i]
  THEN ParseError("buffer does not have XML header", << >>)
  ELSE Parsed("", << >>)

\* The error of decoder.Decode into a struct without a root name: the buffer
\* holds no element.
DecodeErrors(data) ==
  IF data.root = "" THEN << "EOF" >> ELSE << >>

\* The error of decoder.Decode into AtomXML, whose XMLName is
\* "http://www.w3.org/2005/Atom feed".
DecodeAtomErrors(data) ==
  IF data.root = "" THEN << "EOF" >>
  ELSE IF data.root # "feed"
  THEN << "expected element type <feed>" >>
  ELSE IF data.xmlns # AtomNS
  THEN << "expected element <feed> in name space of Atom" >>
  ELSE << >>

parseAsRSS(data) ==
  IF DecodeErrors(data) # << >>
  THEN ParseError("RSS XML decode error", DecodeErrors(data))
  ELSE IF ToLower(data.root) # "rss"
  THEN ParseError("base tag is not RSS", << >>)
  ELSE Parsed("", data.items)

parseAsRDF(data) ==
  IF DecodeErrors(data) # << >>
  THEN ParseError("RDF XML decode error", DecodeErrors(data))
  ELSE IF ToLower(data.root) # "rdf"
  THEN ParseError("base tag is not RDF", << >>)
  ELSE Parsed("", data.items)

\* Index of the first link with rel = "self", 0 when there is none.
firstSelf(links) ==
  IF \E i \in 1..Len(links) : links[i].Rel = "self"
  THEN CHOOSE i \in 1..Len(links) :
         /\ links[i].Rel = "self"
         /\ \A j \in 1..(i - 1) : links[j].Rel # "self"
  ELSE 0

\* The Item made from an <entry> of Atom.
atomItem(entry) ==
  ChannelItem(entry.Title,
              IF Len(entry.Links) > 0 THEN entry.Links[1].Href ELSE "",
              entry.Content, entry.Updated, entry.ID)

\* Variant: the link of the channel is the first <link>, whatever its rel.
parseAsAtom_FirstLink(data) ==
  IF DecodeAtomErrors(data) # << >>
  THEN ParseError("Atom XML decode error", DecodeAtomErrors(data))
  ELSE Parsed(IF Len(data.links) > 0 THEN data.links[1].Href ELSE "",
              [i \in 1..Len(data.items) |-> atomItem(data.items[i])])

parseAsAtom(data) ==
  IF DecodeAtomErrors(data) # << >>
  THEN ParseError("Atom XML decode error", DecodeAtomErrors(data))
  ELSE Parsed(IF firstSelf(data.links) = 0 THEN ""
              ELSE data.links[firstSelf(data.links)].Href,
              [i \in 1..Len(data.items) |-> atomItem(data.items[i])])

\* The dialects are tried in the order RSS, RDF, Atom.
ParseFeedXML(data) ==
  IF looksLikeXML(data).err THEN looksLikeXML(data)
  ELSE IF ~parseAsRSS(data).err THEN parseAsRSS(data)
  ELSE IF ~parseAsRDF(data).err THEN parseAsRDF(data)
  ELSE IF ~parseAsAtom(data).err THEN parseAsAtom(data)
  ELSE ParseError("unable to parse as RSS, RDF, or Atom", << >>)

\* ------------------------------------------------------------------------
\* Queries of the poller.  Each takes the table it reads.

Max(S) == CHOOSE x \in S : \A y \in S : y <= x

\* time.Since(*feed.LastUpdateTime).Seconds()
timeSince(f) == now - feeds[f].LastUpdateTime

\* Variant: the feed is due only after more than its update frequency.
shouldUpdateFeed_OffByOne(f) ==
  IF ignorePollTimes THEN TRUE
  ELSE IF feeds[f].LastUpdateTime = NullTime THEN TRUE
  ELSE IF timeSince(f) <= UpdateFrequencySeconds[f] THEN FALSE
  ELSE TRUE

\* Variant: every feed is due.
shouldUpdateFeed_Always(f) == TRUE

shouldUpdateFeed(f) ==
  IF ignorePollTimes THEN TRUE
  ELSE IF feeds[f].LastUpdateTime = NullTime THEN TRUE
  ELSE IF timeSince(f) < UpdateFrequencySeconds[f] THEN FALSE
  ELSE TRUE

\* Variant: a feed without rows falls back to its last poll time.
getFeedCutoffTime_LastPoll(items, f) ==
  LET dates == { r.publication_date :
                   r \in { x \in items \cup rss_item_archive : x.rss_feed_id = f } }
  IN  IF dates = {} THEN feeds[f].LastUpdateTime ELSE Max(dates)

\* SELECT MAX(publication_date) over rss_item and rss_item_archive; the zero
\* time when the feed has no row.
getFeedCutoffTime(items, f) ==
  LET dates == { r.publication_date :
                   r \in { x \in items \cup rss_item_archive : x.rss_feed_id = f } }
  IN  IF dates = {} THEN ZeroTime ELSE Max(dates)

feedItemExistsByGUID(items, f, it) ==
  \E r \in items \cup rss_item_archive : r.rss_feed_id = f /\ r.guid = it.GUID

feedItemExistsByLink(items, f, it) ==
  \E r \in items \cup rss_item_archive : r.rss_feed_id = f /\ r.link = it.Link

\* The sentinel fixOldItem compares with.
ErrItemNotFound == "item not found"

\* gorse.FindItemByLink: the row, or the error of row.Scan wrapped by
\* fmt.Errorf when there is no row.
FindItemByLink(items, f, link) ==
  LET found == { r \in items : r.rss_feed_id = f /\ r.link = link }
  IN  IF found = {} THEN [err |-> "failed to scan row", rows |-> {}]
      ELSE [err |-> "nil", rows |-> {CHOOSE r \in found : TRUE}]

\* Variant: the table without UNIQUE (rss_feed_id, guid).
guidConflict_Off(items, f, guid, except) == FALSE

\* UNIQUE (rss_feed_id, guid): NULLs never conflict.
guidConflict(items, f, guid, except) ==
  /\ guid # NullGuid
  /\ \E r \in items : r.rss_feed_id = f /\ r.guid = guid /\ r.id # except

\* Variant: the table without UNIQUE (rss_feed_id, link).
linkConflict_Off(items, f, link) == FALSE

\* UNIQUE (rss_feed_id, link)
linkConflict(items, f, link) ==
  \E r \in items : r.rss_feed_id = f /\ r.link = link

\* UPDATE rss_item SET guid = $1 WHERE id = $2.  [err, items]
dbSetItemGUID(items, rowid, guid) ==
  LET row == CHOOSE r \in items : r.id = rowid
  IN  IF guidConflict(items, row.rss_feed_id, guid, rowid)
      THEN [err |-> TRUE, items |-> items]
      ELSE [err |-> FALSE,
            items |-> (items \ {row}) \cup {[row EXCEPT !.guid = guid]}]

\* Variant: the old row is found but its guid is not set.
fixOldItem_NoUpdate(items, f, it) ==
  LET res == FindItemByLink(items, f, it.Link)
  IN  IF res.err # "nil"
      THEN IF res.err = ErrItemNotFound
           THEN [found |-> FALSE, err |-> FALSE, items |-> items]
           ELSE [found |-> FALSE, err |-> TRUE, items |-> items]
      ELSE LET dbItem == CHOOSE r \in res.rows : TRUE
           IN  IF dbItem.guid = NullGuid
               THEN [found |-> TRUE, err |-> FALSE, items |-> items]
               ELSE [found |-> FALSE, err |-> TRUE, items |-> items]

\* Variant: a row found with another guid makes the item one to skip.
fixOldItem_SkipMismatch(items, f, it) ==
  LET res == FindItemByLink(items, f, it.Link)
  IN  IF res.err # "nil"
      THEN IF res.err = ErrItemNotFound
           THEN [found |-> FALSE, err |-> FALSE, items |-> items]
           ELSE [found |-> FALSE, err |-> TRUE, items |-> items]
      ELSE LET dbItem == CHOOSE r \in res.rows : TRUE
           IN  IF dbItem.guid = NullGuid
               THEN LET upd == dbSetItemGUID(items, dbItem.id, it.GUID)
                    IN  IF upd.err
                        THEN [found |-> FALSE, err |-> TRUE, items |-> items]
                        ELSE [found |-> TRUE, err |-> FALSE, items |-> upd.items]
               ELSE [found |-> TRUE, err |-> FALSE, items |-> items]

\* Variant: the guid of the row found is set whatever it holds.
fixOldItem_Overwrite(items, f, it) ==
  LET res == FindItemByLink(items, f, it.Link)
  IN  IF res.err # "nil"
      THEN IF res.err = ErrItemNotFound
           THEN [found |-> FALSE, err |-> FALSE, items |-> items]
           ELSE [found |-> FALSE, err |-> TRUE, items |-> items]
      ELSE LET dbItem == CHOOSE r \in res.rows : TRUE
               upd == dbSetItemGUID(items, dbItem.id, it.GUID)
           IN  IF upd.err
               THEN [found |-> FALSE, err |-> TRUE, items |-> items]
               ELSE [found |-> TRUE, err |-> FALSE, items |-> upd.items]

\* [found, err, items]
fixOldItem(items, f, it) ==
  LET res == FindItemByLink(items, f, it.Link)
  IN  IF res.err # "nil"
      THEN IF res.err = ErrItemNotFound
           THEN [found |-> FALSE, err |-> FALSE, items |-> items]
           ELSE [found |-> FALSE, err |-> TRUE, items |-> items]
      ELSE LET dbItem == CHOOSE r \in res.rows : TRUE
           IN  IF dbItem.guid = NullGuid
               THEN LET upd == dbSetItemGUID(items, dbItem.id, it.GUID)
                    IN  IF upd.err
                        THEN [found |-> FALSE, err |-> TRUE, items |-> items]
                        ELSE [found |-> TRUE, err |-> FALSE, items |-> upd.items]
               ELSE [found |-> FALSE, err |-> TRUE, items |-> items]

\* Variant: the item's GUID is not looked at, the link and the publication
\* date decide.
shouldRecordItem_NoGUID(items, f, lastUpdateTime, it, cutoff, ignorePub, dbOK) ==
  IF lastUpdateTime = NullTime
  THEN [record |-> TRUE, err |-> FALSE, items |-> items]
  ELSE IF ~dbOK
  THEN [record |-> FALSE, err |-> TRUE, items |-> items]
  ELSE IF feedItemExistsByLink(items, f, it)
  THEN [record |-> FALSE, err |-> FALSE, items |-> items]
  ELSE IF ignorePub
  THEN [record |-> TRUE, err |-> FALSE, items |-> items]
  ELSE IF it.PubDate < cutoff
  THEN [record |-> FALSE, err |-> FALSE, items |-> items]
  ELSE [record |-> TRUE, err |-> FALSE, items |-> items]

\* Variant: the flag ignorePublicationTimes is read inverted.
shouldRecordItem_InvertedFlag(items, f, lastUpdateTime, it, cutoff, ignorePub, dbOK) ==
  IF lastUpdateTime = NullTime
  THEN [record |-> TRUE, err |-> FALSE, items |-> items]
  ELSE IF ~dbOK
  THEN [record |-> FALSE, err |-> TRUE, items |-> items]
  ELSE IF it.GUID # ""
  THEN IF feedItemExistsByGUID(items, f, it)
       THEN [record |-> FALSE, err |-> FALSE, items |-> items]
       ELSE LET fix == fixOldItem(items, f, it)
            IN  IF fix.err
                THEN [record |-> FALSE, err |-> TRUE, items |-> items]
                ELSE IF fix.found
                THEN [record |-> FALSE, err |-> FALSE, items |-> fix.items]
                ELSE [record |-> TRUE, err |-> FALSE, items |-> items]
  ELSE IF feedItemExistsByLink(items, f, it)
  THEN [record |-> FALSE, err |-> FALSE, items |-> items]
  ELSE IF ~ignorePub
  THEN [record |-> TRUE, err |-> FALSE, items |-> items]
  ELSE IF it.PubDate < cutoff
  THEN [record |-> FALSE, err |-> FALSE, items |-> items]
  ELSE [record |-> TRUE, err |-> FALSE, items |-> items]

\* Variant: an item published at the cutoff time is skipped.
shouldRecordItem_StrictCutoff(items, f, lastUpdateTime, it, cutoff, ignorePub, dbOK) ==
  IF lastUpdateTime = NullTime
  THEN [record |-> TRUE, err |-> FALSE, items |-> items]
  ELSE IF ~dbOK
  THEN [record |-> FALSE, err |-> TRUE, items |-> items]
  ELSE IF it.GUID # ""
  THEN IF feedItemExistsByGUID(items, f, it)
       THEN [record |-> FALSE, err |-> FALSE, items |-> items]
       ELSE LET fix == fixOldItem(items, f, it)
            IN  IF fix.err
                THEN [record |-> FALSE, err |-> TRUE, items |-> items]
                ELSE IF fix.found
                THEN [record |-> FALSE, err |-> FALSE, items |-> fix.items]
                ELSE [record |-> TRUE, err |-> FALSE, items |-> items]
  ELSE IF feedItemExistsByLink(items, f, it)
  THEN [record |-> FALSE, err |-> FALSE, items |-> items]
  ELSE IF ignorePub
  THEN [record |-> TRUE, err |-> FALSE, items |-> items]
  ELSE IF it.PubDate <= cutoff
  THEN [record |-> FALSE, err |-> FALSE, items |-> items]
  ELSE [record |-> TRUE, err |-> FALSE, items |-> items]

\* [record, err, items] for a feed as read by retrieveFeeds (lastUpdateTime is
\* feed.LastUpdateTime), with the database answering (dbOK) or not.
shouldRecordItem(items, f, lastUpdateTime, it, cutoff, ignorePub, dbOK) ==
  IF lastUpdateTime = NullTime
  THEN [record |-> TRUE, err |-> FALSE, items |-> items]
  ELSE IF ~dbOK
  THEN [record |-> FALSE, err |-> TRUE, items |-> items]
  ELSE IF it.GUID # ""
  THEN IF feedItemExistsByGUID(items, f, it)
       THEN [record |-> FALSE, err |-> FALSE, items |-> items]
       ELSE LET fix == fixOldItem(items, f, it)
            IN  IF fix.err
                THEN [record |-> FALSE, err |-> TRUE, items |-> items]
                ELSE IF fix.found
                THEN [record |-> FALSE, err |-> FALSE, items |-> fix.items]
                ELSE [record |-> TRUE, err |-> FALSE, items |-> items]
  ELSE IF feedItemExistsByLink(items, f, it)
  THEN [record |-> FALSE, err |-> FALSE, items |-> items]
  ELSE IF ignorePub
  THEN [record |-> TRUE, err |-> FALSE, items |-> items]
  ELSE IF it.PubDate < cutoff
  THEN [record |-> FALSE, err |-> FALSE, items |-> items]
  ELSE [record |-> TRUE, err |-> FALSE, items |-> items]

\* The row recordFeedItem inserts: an empty GUID is stored as NULL.
NewRow(rowid, f, it) ==
  [id |-> rowid, rss_feed_id |-> f, title |-> it.Title,
   description |-> it.Description, link |-> it.Link,
   guid |-> IF it.GUID # "" THEN it.GUID ELSE NullGuid,
   publication_date |-> it.PubDate]

\* Variant: the table has neither UNIQUE constraint.
insertItem_Unchecked(items, rowid, f, it) ==
  [err |-> FALSE, items |-> items \cup {NewRow(rowid, f, it)}]

\* INSERT INTO rss_item ... RETURNING id.  [err, items]
insertItem(items, rowid, f, it) ==
  LET row == NewRow(rowid, f, it)
  IN  IF linkConflict(items, f, row.link) \/ guidConflict(items, f, row.guid, rowid)
      THEN [err |-> TRUE, items |-> items]
      ELSE [err |-> FALSE, items |-> items \cup {row}]

\* Variant: every item recorded is set read.
setsRead_Always(f) == TRUE

\* Variant: only the items of an archive feed are set read.
setsRead_ArchiveOnly(f) == feeds[f].Archive

\* recordFeedItem: the items of a first poll and of an archive feed are set
\* read.
setsRead(f) == feeds[f].LastUpdateTime = NullTime \/ feeds[f].Archive

\* Variant: a plain INSERT, on a table without the unique constraint.
DBSetItemReadState_Insert(states, rowid, user, state) ==
  states \cup {[item_id |-> rowid, user_id |-> user, state |-> state]}

\* gorse.DBSetItemReadState: INSERT ... ON CONFLICT (user_id, item_id) DO UPDATE.
DBSetItemReadState(states, rowid, user, state) ==
  { s \in states : ~(s.item_id = rowid /\ s.user_id = user) }
    \cup {[item_id |-> rowid, user_id |-> user, state |-> state]}


\* ------------------------------------------------------------------------
\* Steps of the program.

\* The clock advances between runs and during a cycle.  The program reads it
\* in processFeeds only: the time that passes during a cycle, after updateTime
\* was taken, passes before the fetch.
Tick ==
  /\ pc \in {"idle", "retrieveFeed"}
  /\ now < MaxTime
  /\ now' = now + 1
  /\ UNCHANGED <<dbvars, runvars, pc, fi, status, cyclevars, feedsUpdated,
                 lastCycle>>
  /\ UNCHANGED auxvars

\* What the locals of updateFeed hold outside a feed's cycle.
ResetCycle ==
  /\ updateTime' = ZeroTime
  /\ xmlData' = NullPayload
  /\ channel' = << >>
  /\ cutoffTime' = ZeroTime
  /\ ii' = 1
  /\ recordedCount' = 0
  /\ id' = 0
  /\ repeated' = FALSE
  /\ httpResponse' = NoResponse

\* main: the flags are parsed, retrieveFeeds reads the feeds, and
\* processFeeds starts; with -feed-name the feeds retrieved are searched for
\* the name, and the program exits (log.Fatalf) when none has it.
StartRun ==
  /\ pc = "idle"
  /\ runs < MaxRuns
  /\ runs' = runs + 1
  /\ \E ipt \in BOOLEAN, ipub \in BOOLEAN, singleFeed \in SingleFeeds :
       /\ ignorePollTimes' = ipt
       /\ ignorePublicationTimes' = ipub
       /\ IF /\ singleFeed # ""
             /\ ~ \E i \in 1..Len(FeedOrder) : FeedName[FeedOrder[i]] = singleFeed
          THEN pc' = "idle"
          ELSE /\ singleFeed = ""
               /\ pc' = "processFeeds"
  /\ feeds' = [f \in Feeds |-> [LastUpdateTime |-> rss_feed[f].last_update_time,
                                Archive |-> rss_feed[f].archive]]
  /\ fi' = 1
  /\ status' = [f \in Feeds |-> "pending"]
  /\ feedsUpdated' = 0
  /\ UNCHANGED <<dbvars, now, cyclevars, lastCycle>>
  /\ UNCHANGED auxvars

\* Rows the cycle has inserted so far: the items counted, and the one whose
\* read state is not set yet.
insertedCount == recordedCount + (IF pc = "DBSetItemReadState" THEN 1 ELSE 0)

\* History of the cycle that ends: "updated", "partial" for a cycle that failed
\* after it had stored the body and inserted a row, else "failed".
EndOfCycle(ok) ==
  IF ok
  THEN [outcome |-> "updated", ignorePublicationTimes |-> ignorePublicationTimes]
  ELSE [outcome |-> IF insertedCount > 0 THEN "partial" ELSE "failed",
        ignorePublicationTimes |-> FALSE]

\* Variant: processFeeds does not leave the iteration on the error.
FailFeed_KeepGoing ==
  /\ pc' = "recordFeedUpdate"
  /\ UNCHANGED <<fi, status, cyclevars, feedsUpdated, lastCycle>>

\* Variant: updateFeed logs the error and goes on with the next item.
FailFeed_SkipItem ==
  /\ pc' = "items"
  /\ ii' = ii + 1
  /\ UNCHANGED <<fi, status, updateTime, xmlData, channel, cutoffTime,
                 recordedCount, id, repeated, httpResponse, feedsUpdated,
                 lastCycle>>

\* Variant: processFeeds returns on the error of updateFeed.
FailFeed_Abort ==
  /\ status' = [status EXCEPT ![feed] = "failed"]
  /\ pc' = "idle"
  /\ ResetCycle
  /\ lastCycle' = [lastCycle EXCEPT ![feed] = EndOfCycle(FALSE)]
  /\ UNCHANGED <<fi, feedsUpdated>>

\* updateFeed returned an error: processFeeds logs it and continues with the
\* next feed.
FailFeed ==
  /\ status' = [status EXCEPT ![feed] = "failed"]
  /\ fi' = fi + 1
  /\ pc' = "processFeeds"
  /\ ResetCycle
  /\ lastCycle' = [lastCycle EXCEPT ![feed] = EndOfCycle(FALSE)]
  /\ UNCHANGED <<feedsUpdated>>

\* processFeeds, head of the loop: the feed is skipped when it is not due,
\* else updateTime is taken.
ProcessFeed ==
  /\ pc = "processFeeds"
  /\ fi <= Len(FeedOrder)
  /\ IF ~shouldUpdateFeed(feed)
     THEN /\ status' = [status EXCEPT ![feed] = "notdue"]
          /\ fi' = fi + 1
          /\ UNCHANGED <<pc, cyclevars>>
     ELSE /\ updateTime' = now
          /\ pc' = "retrieveFeed"
          /\ UNCHANGED <<status, fi, xmlData, channel, cutoffTime, ii,
                         recordedCount, id, repeated, httpResponse>>
  /\ UNCHANGED <<dbvars, now, runvars, feedsUpdated, lastCycle>>
  /\ UNCHANGED auxvars

\* processFeeds, after the loop.
FinishRun ==
  /\ pc = "processFeeds"
  /\ fi > Len(FeedOrder)
  /\ pc' = "idle"
  /\ UNCHANGED <<dbvars, now, runvars, fi, status, cyclevars, feedsUpdated,
                 lastCycle>>
  /\ UNCHANGED auxvars

\* updateFeed: retrieveFeed fetches the body, or fails.
RetrieveFeed ==
  /\ pc = "retrieveFeed"
  /\ \/ \E resp \in Responses(feed) :
          /\ httpResponse' = resp.StatusCode
          /\ xmlData' = resp.Body
          /\ pc' = "storeFeedPayload"
          /\ UNCHANGED <<fi, status, updateTime, channel, cutoffTime, ii,
                         recordedCount, id, feedsUpdated, repeated, lastCycle>>
     \/ FailFeed
  /\ UNCHANGED <<dbvars, now, runvars>>
  /\ UNCHANGED auxvars

\* Variant: only a body that parses is stored.
StoreFeedPayload_ValidOnly ==
  /\ pc = "storeFeedPayload"
  /\ \/ /\ rss_feed' = IF ParseFeedXML(xmlData).err
                       THEN rss_feed
                       ELSE [rss_feed EXCEPT ![feed].last_payload = xmlData]
        /\ repeated' = (xmlData = rss_feed[feed].last_payload)
        /\ pc' = "ParseFeedXML"
        /\ UNCHANGED <<fi, status, updateTime, xmlData, channel, cutoffTime, ii,
                       recordedCount, id, feedsUpdated, httpResponse,
                       lastCycle>>
     \/ /\ FailFeed
        /\ UNCHANGED rss_feed
  /\ UNCHANGED <<rss_item, rss_item_state, rss_item_id_seq, now, runvars>>
  /\ UNCHANGED auxvars

\* updateFeed: storeFeedPayload.
StoreFeedPayload ==
  /\ pc = "storeFeedPayload"
  /\ \/ /\ rss_feed' = [rss_feed EXCEPT ![feed].last_payload = xmlData]
        /\ repeated' = (xmlData = rss_feed[feed].last_payload)
        /\ pc' = "ParseFeedXML"
        /\ UNCHANGED <<fi, status, updateTime, xmlData, channel, cutoffTime, ii,
                       recordedCount, id, feedsUpdated, httpResponse,
                       lastCycle>>
     \/ /\ FailFeed
        /\ UNCHANGED rss_feed
  /\ UNCHANGED <<rss_item, rss_item_state, rss_item_id_seq, now, runvars>>
  /\ UNCHANGED auxvars

\* updateFeed: rss.ParseFeedXML.
ParseFeed ==
  /\ pc = "ParseFeedXML"
  /\ LET res == ParseFeedXML(xmlData)
     IN  IF res.err
         THEN FailFeed
         ELSE /\ channel' = res.Items
              /\ pc' = "getFeedCutoffTime"
              /\ UNCHANGED <<fi, status, updateTime, xmlData, cutoffTime, ii,
                             recordedCount, id, feedsUpdated, repeated,
                             httpResponse, lastCycle>>
  /\ UNCHANGED <<dbvars, now, runvars>>
  /\ UNCHANGED auxvars

\* updateFeed: getFeedCutoffTime.
GetFeedCutoffTime ==
  /\ pc = "getFeedCutoffTime"
  /\ \/ /\ cutoffTime' = getFeedCutoffTime(rss_item, feed)
        /\ ii' = 1
        /\ pc' = "items"
        /\ UNCHANGED <<fi, status, updateTime, xmlData, channel, recordedCount,
                       id, feedsUpdated, repeated, httpResponse, lastCycle>>
     \/ FailFeed
  /\ UNCHANGED <<dbvars, now, runvars>>
  /\ UNCHANGED auxvars

\* The head of the loop without the test of the link.
NextItem_NoBlankCheck ==
  /\ pc = "items"
  /\ IF ii > Len(channel)
     THEN pc' = "recordFeedUpdate"
     ELSE pc' = "shouldRecordItem"
  /\ UNCHANGED <<dbvars, now, runvars, fi, status, updateTime, xmlData, channel,
                 cutoffTime, ii, recordedCount, id, feedsUpdated, repeated,
                 httpResponse, lastCycle>>
  /\ UNCHANGED auxvars

\* updateFeed, head of the loop over channel.Items: an item with a blank link
\* is logged and skipped; after the last item updateFeed returns nil.
NextItem ==
  /\ pc = "items"
  /\ IF ii > Len(channel)
     THEN /\ pc' = "recordFeedUpdate"
          /\ UNCHANGED ii
     ELSE IF item.Link = ""
     THEN /\ ii' = ii + 1
          /\ UNCHANGED pc
     ELSE /\ pc' = "shouldRecordItem"
          /\ UNCHANGED ii
  /\ UNCHANGED <<dbvars, now, runvars, fi, status, updateTime, xmlData, channel,
                 cutoffTime, recordedCount, id, feedsUpdated, repeated,
                 httpResponse, lastCycle>>
  /\ UNCHANGED auxvars

\* recordFeedItem: shouldRecordItem, with the guid it may set on an old row.
ShouldRecordItem ==
  /\ pc = "shouldRecordItem"
  /\ \E dbOK \in BOOLEAN :
       LET res == shouldRecordItem(rss_item, feed, feeds[feed].LastUpdateTime,
                                   item, cutoffTime, ignorePublicationTimes, dbOK)
       IN  IF res.err
           THEN /\ FailFeed
                /\ UNCHANGED rss_item
           ELSE /\ rss_item' = res.items
                /\ IF res.record
                   THEN /\ pc' = "insert"
                        /\ UNCHANGED ii
                   ELSE /\ pc' = "items"
                        /\ ii' = ii + 1
                /\ UNCHANGED <<fi, status, updateTime, xmlData, channel,
                               cutoffTime, recordedCount, id, feedsUpdated,
                               repeated, httpResponse, lastCycle>>
  /\ UNCHANGED <<rss_feed, rss_item_state, rss_item_id_seq, now, runvars>>
  /\ UNCHANGED auxvars

\* The item is recorded: recordFeedItem returns true.
Recorded ==
  /\ recordedCount' = recordedCount + 1
  /\ ii' = ii + 1
  /\ pc' = "items"
  /\ UNCHANGED <<fi, status, updateTime, xmlData, channel, cutoffTime,
                 feedsUpdated, repeated, httpResponse, lastCycle>>

\* recordFeedItem: the INSERT.  The sequence gives the id; the statement fails
\* on a constraint, or with the connection.
InsertItem ==
  /\ pc = "insert"
  /\ \/ LET res == insertItem(rss_item, rss_item_id_seq, feed, item)
        IN  /\ rss_item_id_seq' = rss_item_id_seq + 1
            /\ IF res.err
               THEN /\ FailFeed
                    /\ UNCHANGED rss_item
               ELSE /\ rss_item' = res.items
                    /\ IF setsRead(feed)
                       THEN /\ id' = rss_item_id_seq
                            /\ pc' = "DBSetItemReadState"
                            /\ UNCHANGED <<fi, status, updateTime, xmlData,
                                           channel, cutoffTime, ii,
                                           recordedCount, feedsUpdated,
                                           repeated, httpResponse,
                                           lastCycle>>
                       ELSE /\ Recorded
                            /\ id' = rss_item_id_seq
     \/ /\ FailFeed
        /\ UNCHANGED <<rss_item, rss_item_id_seq>>
  /\ UNCHANGED <<rss_feed, rss_item_state, now, runvars>>
  /\ UNCHANGED auxvars

\* Variant: the item recorded is set unread.
SetItemReadState_Unread ==
  /\ pc = "DBSetItemReadState"
  /\ \/ /\ rss_item_state' = DBSetItemReadState(rss_item_state, id, userID, "unread")
        /\ Recorded
        /\ UNCHANGED id
     \/ /\ FailFeed
        /\ UNCHANGED rss_item_state
  /\ UNCHANGED <<rss_feed, rss_item, rss_item_id_seq, now, runvars>>
  /\ UNCHANGED auxvars

\* recordFeedItem: the item of a first poll or of an archive feed is set read.
SetItemReadState ==
  /\ pc = "DBSetItemReadState"
  /\ \/ /\ rss_item_state' = DBSetItemReadState(rss_item_state, id, userID, "read")
        /\ Recorded
        /\ UNCHANGED id
     \/ /\ FailFeed
        /\ UNCHANGED rss_item_state
  /\ UNCHANGED <<rss_feed, rss_item, rss_item_id_seq, now, runvars>>
  /\ UNCHANGED auxvars

\* Variant: recordFeedUpdate writes the time of the statement.
RecordFeedUpdate_Now ==
  /\ pc = "recordFeedUpdate"
  /\ \/ /\ rss_feed' = [rss_feed EXCEPT ![feed].last_update_time = now]
        /\ status' = [status EXCEPT ![feed] = "updated"]
        /\ feedsUpdated' = feedsUpdated + 1
        /\ fi' = fi + 1
        /\ pc' = "processFeeds"
        /\ ResetCycle
        /\ lastCycle' = [lastCycle EXCEPT ![feed] = EndOfCycle(TRUE)]
     \/ /\ status' = [status EXCEPT ![feed] = "fatal"]
        /\ pc' = "idle"
        /\ ResetCycle
        /\ lastCycle' = [lastCycle EXCEPT ![feed] = EndOfCycle(FALSE)]
        /\ UNCHANGED <<rss_feed, fi, feedsUpdated>>
  /\ UNCHANGED <<rss_item, rss_item_state, rss_item_id_seq, now, runvars>>
  /\ UNCHANGED auxvars

\* processFeeds: recordFeedUpdate writes updateTime; when it fails processFeeds
\* returns the error and main exits.
RecordFeedUpdate ==
  /\ pc = "recordFeedUpdate"
  /\ \/ /\ rss_feed' = [rss_feed EXCEPT ![feed].last_update_time = updateTime]
        /\ status' = [status EXCEPT ![feed] = "updated"]
        /\ feedsUpdated' = feedsUpdated + 1
        /\ fi' = fi + 1
        /\ pc' = "processFeeds"
        /\ ResetCycle
        /\ lastCycle' = [lastCycle EXCEPT ![feed] = EndOfCycle(TRUE)]
     \/ /\ status' = [status EXCEPT ![feed] = "fatal"]
        /\ pc' = "idle"
        /\ ResetCycle
        /\ lastCycle' = [lastCycle EXCEPT ![feed] = EndOfCycle(FALSE)]
        /\ UNCHANGED <<rss_feed, fi, feedsUpdated>>
  /\ UNCHANGED <<rss_item, rss_item_state, rss_item_id_seq, now, runvars>>
  /\ UNCHANGED auxvars

Next ==
  \/ Tick
  \/ StartRun
  \/ ProcessFeed
  \/ FinishRun
  \/ RetrieveFeed
  \/ StoreFeedPayload
  \/ ParseFeed
  \/ GetFeedCutoffTime
  \/ NextItem
  \/ ShouldRecordItem
  \/ InsertItem
  \/ SetItemReadState
  \/ RecordFeedUpdate

Spec == Init /\ [][Next]_vars

TypeOK ==
  /\ pc \in {"idle", "processFeeds", "retrieveFeed", "storeFeedPayload",
             "ParseFeedXML", "getFeedCutoffTime", "items", "shouldRecordItem",
             "insert", "DBSetItemReadState", "recordFeedUpdate"}
  /\ runs \in 0..MaxRuns
  /\ now \in StartTime..MaxTime


\* ------------------------------------------------------------------------
\* Properties.

\* Rows of a feed.
RowsOf(f) == { r \in rss_item : r.rss_feed_id = f }

\* The feed of the cycle had been polled before the run.
Polled == feeds[feed].LastUpdateTime # NullTime

\* Positions inside the loop over the items, and after it.
LoopPcs == {"items", "shouldRecordItem", "insert", "DBSetItemReadState",
            "recordFeedUpdate"}

\* Two items of the batch share a non-empty link or a non-empty guid.
DupInBatch(items) ==
  \E i, j \in 1..Len(items) :
    /\ i < j
    /\ \/ items[i].Link # "" /\ items[i].Link = items[j].Link
       \/ items[i].GUID # "" /\ items[i].GUID = items[j].GUID

\* C1: last_update_time of a feed is written only by recordFeedUpdate, after
\* the body was fetched and stored, parsed, and every item of the batch went
\* through the loop; a cycle that ends failed leaves it as the run found it.
C1_LastPollTimeAfterWholeCycle ==
  [][\A f \in Feeds :
       /\ rss_feed'[f].last_update_time # rss_feed[f].last_update_time =>
            /\ pc = "recordFeedUpdate"
            /\ feed = f
            /\ rss_feed[f].last_payload = xmlData
            /\ ~ParseFeedXML(xmlData).err
            /\ channel = ParseFeedXML(xmlData).Items
            /\ ii > Len(channel)
            /\ rss_feed'[f].last_update_time = updateTime
       /\ status'[f] \in {"failed", "fatal"} =>
            rss_feed'[f].last_update_time = feeds'[f].LastUpdateTime]_vars

\* A cycle failed after it had inserted a row, and the poll time is the old one.
C1_Witness ==
  \E f \in Feeds :
    /\ status[f] = "failed"
    /\ lastCycle[f].outcome = "partial"
    /\ rss_feed[f].last_update_time = feeds[f].LastUpdateTime

\* C2: when the previous cycle of the feed failed after inserting rows and the
\* same body is processed again, no INSERT is attempted for an item that is
\* stored already.
C2_RetryInsertsNothingStored ==
  (pc = "insert" /\ repeated /\ lastCycle[feed].outcome = "partial") =>
     /\ ~linkConflict(rss_item, feed, item.Link)
     /\ ~guidConflict(rss_item, feed, NewRow(0, feed, item).guid, 0)

\* C3: no two rows of rss_item have the same feed and link.
C3_LinkUnique ==
  \A r1, r2 \in rss_item :
    (r1.rss_feed_id = r2.rss_feed_id /\ r1.link = r2.link) => r1 = r2

\* The second item of a batch with twice the link "a" was refused by the
\* table: the sequence has given an id that no row has.
C3_Witness ==
  /\ status[1] = "failed"
  /\ lastCycle[1].outcome = "partial"
  /\ rss_feed[1].last_payload.items = << Item("a", "", 1), Item("a", "", 3) >>
  /\ Cardinality({ r \in RowsOf(1) : r.link = "a" }) = 1
  /\ rss_item_id_seq > Cardinality(rss_item) + 1

\* C4: no two rows of rss_item have the same feed and the same non-NULL guid.
C4_GuidUnique ==
  \A r1, r2 \in rss_item :
    (r1.rss_feed_id = r2.rss_feed_id /\ r1.guid = r2.guid /\ r1.guid # NullGuid)
      => r1 = r2

\* The old row of feed 1 has got a guid, and the feed has another row.
C4_Witness ==
  /\ \E r \in rss_item : r.id = OldRow.id /\ r.guid = "g1"
  /\ Cardinality(RowsOf(1)) = 2

\* C5 as stated: a cycle on the body of the feed's previous, successful cycle
\* inserts nothing, and writes its updateTime as the poll time.
C5_SamePayloadInsertsNothing ==
  [][(pc = "recordFeedUpdate" /\ repeated /\ lastCycle[feed].outcome = "updated")
       => /\ recordedCount = 0
          /\ status'[feed] = "updated" =>
               /\ rss_feed'[feed].last_update_time = updateTime
               /\ updateTime >= rss_feed[feed].last_update_time]_vars

\* C5, amended: the same, unless the second cycle runs with
\* ignorePublicationTimes and the first ran without it.
C5_SamePayloadSameFlagInsertsNothing ==
  [][(/\ pc = "recordFeedUpdate"
      /\ repeated
      /\ lastCycle[feed].outcome = "updated"
      /\ ignorePublicationTimes => lastCycle[feed].ignorePublicationTimes)
       => /\ recordedCount = 0
          /\ status'[feed] = "updated" =>
               /\ rss_feed'[feed].last_update_time = updateTime
               /\ updateTime >= rss_feed[feed].last_update_time]_vars

\* The two items of feed 1 are fetched again after a successful cycle, and
\* the loop has ended without an insert.
C5_Witness ==
  /\ pc = "recordFeedUpdate"
  /\ feed = 1
  /\ repeated
  /\ lastCycle[feed].outcome = "updated"
  /\ ignorePublicationTimes => lastCycle[feed].ignorePublicationTimes
  /\ Len(channel) = 2
  /\ recordedCount = 0

\* C6: for a feed polled before, shouldRecordItem on an item whose guid a row
\* of the feed has does not say record, and inserts or changes no row.
C6_StoredGuidNeverRecorded ==
  [][(/\ pc = "shouldRecordItem"
      /\ Polled
      /\ item.GUID # ""
      /\ \E r \in RowsOf(feed) : r.guid = item.GUID)
       => (pc' # "insert" /\ rss_item' = rss_item)]_vars

\* An item was skipped whose guid a row with another link has.
C6_Witness ==
  /\ pc = "items"
  /\ ii > 1
  /\ Polled
  /\ channel[ii - 1].GUID # ""
  /\ \E r \in RowsOf(feed) :
       r.guid = channel[ii - 1].GUID /\ r.link # channel[ii - 1].Link

PubDates(f) == { r.publication_date : r \in RowsOf(f) }

EmptyAtStart == Cardinality(RowsOf(feed)) = recordedCount

C10_DuplicateBatchRejected ==
  (pc \in LoopPcs /\ DupInBatch(channel)) =>
     /\ pc \notin {"shouldRecordItem", "insert", "DBSetItemReadState",
                   "recordFeedUpdate"}
     /\ insertedCount = 0

\* An item of the batch has a blank link.
BlankInBatch(items) == \E i \in 1..Len(items) : items[i].Link = ""

\* C11: a batch with an item without link fails the cycle before any item is
\* decided on: nothing is inserted, the poll time is not written.
C11_BlankLinkBatchRejected ==
  (pc \in LoopPcs /\ BlankInBatch(channel)) =>
     /\ pc \notin {"shouldRecordItem", "insert", "DBSetItemReadState",
                   "recordFeedUpdate"}
     /\ insertedCount = 0

\* C12: when the run has ended and the cycle of a feed failed (fetch, payload
\* store, parse, cutoff or an item), every feed after it was evaluated.
C12_FailedFeedDoesNotStopRun ==
  pc = "idle" =>
    \A i, j \in 1..Len(FeedOrder) :
      (i < j /\ status[FeedOrder[i]] = "failed") => status[FeedOrder[j]] # "pending"

\* The cycle of feed 1 failed and feed 2 was updated in the same run.
C12_Witness ==
  /\ pc = "idle"
  /\ status[1] = "failed"
  /\ status[2] = "updated"

\* C13: a run that has ended after it started on its feeds has evaluated
\* every feed, whatever statement of a cycle failed, the write of the poll
\* time included.
C13_PersistenceFailureDoesNotStopRun ==
  (pc = "idle" /\ runs > 0 /\ status[FeedOrder[1]] # "pending") =>
     \A f \in Feeds : status[f] # "pending"

\* C14: at the head of the loop a feed is fetched exactly when ignorePollTimes
\* is set, or it was never polled, or now - lastPollTime >= its update
\* frequency; a feed that is not due is skipped, and no step of the run
\* changes its row of rss_feed, its items or their read states.
C14_DueExactlyWhen ==
  [][/\ (pc = "processFeeds" /\ fi <= Len(FeedOrder) /\ now' = now) =>
          LET due == \/ ignorePollTimes
                     \/ feeds[feed].LastUpdateTime = NullTime
                     \/ now - feeds[feed].LastUpdateTime
                          >= UpdateFrequencySeconds[feed]
          IN  /\ due => (pc' = "retrieveFeed" /\ status'[feed] = "pending")
              /\ ~due => /\ status'[feed] = "notdue"
                         /\ pc' = "processFeeds"
                         /\ fi' = fi + 1
                         /\ UNCHANGED dbvars
     /\ \A f \in Feeds :
          (status[f] = "notdue" /\ status'[f] = "notdue") =>
             /\ rss_feed'[f] = rss_feed[f]
             /\ { r \in rss_item' : r.rss_feed_id = f } = RowsOf(f)
             /\ \A r \in RowsOf(f) :
                  { st \in rss_item_state' : st.item_id = r.id }
                    = { st \in rss_item_state : st.item_id = r.id }]_vars

\* Feed 1 was skipped, and feed 2 is fetched exactly its update frequency after
\* its last poll.
C14_Witness ==
  /\ pc = "retrieveFeed"
  /\ feed = 2
  /\ status[1] = "notdue"
  /\ ~ignorePollTimes
  /\ now - feeds[2].LastUpdateTime = UpdateFrequencySeconds[2]

\* C15: in a run without ignorePollTimes a feed polled before is fetched only
\* when its due check (at updateTime) is at least its update frequency after
\* the stored poll time, and a poll time written is that far after the one it
\* replaces.
C15_PollsAtLeastFrequencyApart ==
  [][\A f \in Feeds :
       (~ignorePollTimes /\ rss_feed[f].last_update_time # NullTime) =>
          /\ (pc = "retrieveFeed" /\ pc' = "storeFeedPayload" /\ feed = f) =>
                updateTime >= rss_feed[f].last_update_time
                                + UpdateFrequencySeconds[f]
          /\ rss_feed'[f].last_update_time # rss_feed[f].last_update_time =>
                rss_feed'[f].last_update_time - rss_feed[f].last_update_time
                  >= UpdateFrequencySeconds[f]]_vars

\* The second successful poll of a feed, taken exactly its update frequency
\* after the first.
C15_Witness ==
  /\ pc = "recordFeedUpdate"
  /\ ~ignorePollTimes
  /\ lastCycle[feed].outcome = "updated"
  /\ feeds[feed].LastUpdateTime # NullTime
  /\ updateTime - feeds[feed].LastUpdateTime = UpdateFrequencySeconds[feed]

\* Positions of processFeeds outside a feed's cycle.
OutsideCycle == {"idle", "processFeeds"}

\* C16: updateTime is the clock when the cycle starts, stays as it is through
\* the cycle, is not later than the fetch, and is the value written as the
\* poll time.
C16_PollTimeIsPreFetchTime ==
  [][/\ (pc = "processFeeds" /\ pc' = "retrieveFeed") => updateTime' = now
     /\ (pc \notin OutsideCycle /\ pc' \notin OutsideCycle) =>
          updateTime' = updateTime
     /\ (pc = "retrieveFeed" /\ pc' = "storeFeedPayload") => updateTime <= now
     /\ \A f \in Feeds :
          rss_feed'[f].last_update_time # rss_feed[f].last_update_time =>
            rss_feed'[f].last_update_time = updateTime]_vars

\* The poll time of feed 1 was written in a cycle during which the clock had
\* advanced.
C16_Witness ==
  /\ pc = "processFeeds"
  /\ fi = 2
  /\ status[1] = "updated"
  /\ rss_feed[1].last_update_time < now

\* C17: when the body is parsed it is stored as last_payload and no row was
\* inserted; a cycle that fails at parsing leaves the body stored, and the
\* poll time, the items and the read states as they were.
C17_PayloadStoredBeforeParse ==
  [][pc = "ParseFeedXML" =>
       /\ rss_feed[feed].last_payload = xmlData
       /\ insertedCount = 0
       /\ ParseFeedXML(xmlData).err =>
            /\ status'[feed] = "failed"
            /\ rss_feed'[feed].last_payload = xmlData
            /\ rss_feed'[feed].last_update_time = feeds[feed].LastUpdateTime
            /\ rss_item' = rss_item
            /\ rss_item_state' = rss_item_state]_vars

\* The cycle of feed 1 failed on the body without XML header, which is stored.
C17_Witness ==
  /\ pc = "processFeeds"
  /\ fi = 2
  /\ status[1] = "failed"
  /\ rss_feed[1].last_payload = Feed(FALSE, "rss", << >>)
  /\ rss_feed[1].last_update_time = feeds[1].LastUpdateTime

\* C18: for a feed polled before, an item whose guid no row has and whose link
\* a row without guid has: the row gets the guid, the item is not recorded,
\* and the feed has as many rows as before (unless the database fails).
C18_GuidBackfilled ==
  [][(/\ pc = "shouldRecordItem"
      /\ Polled
      /\ item.GUID # ""
      /\ ~\E r \in RowsOf(feed) : r.guid = item.GUID
      /\ \E r \in RowsOf(feed) : r.link = item.Link /\ r.guid = NullGuid)
       => \/ status'[feed] = "failed" /\ rss_item' = rss_item
          \/ /\ pc' = "items"
             /\ ii' = ii + 1
             /\ recordedCount' = recordedCount
             /\ rss_item' = { IF r.rss_feed_id = feed /\ r.link = item.Link
                              THEN [r EXCEPT !.guid = item.GUID]
                              ELSE r : r \in rss_item }
             /\ Cardinality(rss_item') = Cardinality(rss_item)]_vars

\* The item (b, g1) was passed without a record, and the old row has its guid.
C18_Witness ==
  /\ pc = "items"
  /\ ii = 2
  /\ Polled
  /\ channel[1] = Item("b", "g1", 3)
  /\ recordedCount = 0
  /\ RowsOf(feed) = {[OldRow EXCEPT !.guid = "g1"]}

\* C19: for a feed polled before, shouldRecordItem, with the database
\* answering, says record without error for an item with a guid when no row
\* of the feed has its guid or its link.
C19_NewGuidItemRecorded ==
  (/\ pc = "shouldRecordItem"
   /\ Polled
   /\ item.GUID # ""
   /\ ~\E r \in RowsOf(feed) : r.guid = item.GUID \/ r.link = item.Link)
    => LET res == shouldRecordItem(rss_item, feed, feeds[feed].LastUpdateTime,
                                   item, cutoffTime, ignorePublicationTimes,
                                   TRUE)
       IN  res.record /\ ~res.err

\* C20: for a feed polled before and an item without guid: with a row of its
\* link it is skipped; else it is recorded exactly when ignorePublicationTimes
\* is set or its publication date is not before the cutoff (unless the
\* database fails).
C20_LinkThenCutoff ==
  [][(pc = "shouldRecordItem" /\ Polled /\ item.GUID = "") =>
       IF \E r \in RowsOf(feed) : r.link = item.Link
       THEN pc' # "insert" /\ rss_item' = rss_item
       ELSE IF ignorePublicationTimes \/ item.PubDate >= cutoffTime
       THEN pc' = "insert" \/ status'[feed] = "failed"
       ELSE pc' # "insert"]_vars

\* An item published at the cutoff time, the date of the newest row, is about
\* to be inserted.
C20_Witness ==
  /\ pc = "insert"
  /\ Polled
  /\ item.GUID = ""
  /\ ~ignorePublicationTimes
  /\ RowsOf(feed) # {}
  /\ item.PubDate = cutoffTime

\* C21: the step after an INSERT is the read state for user 1 exactly when
\* the feed was never polled at the start of the run or is in archive mode;
\* no other step writes rss_item_state, and an item recorded for a feed polled
\* before and not in archive mode has no row there.
C21_ReadStateExactlyWhen ==
  [][/\ (pc = "insert" /\ rss_item' # rss_item) =>
          IF feeds[feed].LastUpdateTime = NullTime \/ feeds[feed].Archive
          THEN /\ pc' = "DBSetItemReadState"
               /\ \E r \in rss_item' \ rss_item : r.id = id'
          ELSE /\ pc' = "items"
               /\ recordedCount' = recordedCount + 1
               /\ rss_item_state' = rss_item_state
               /\ \A r \in rss_item' \ rss_item :
                    ~\E st \in rss_item_state' : st.item_id = r.id
     /\ (pc = "DBSetItemReadState" /\ pc' = "items") =>
          /\ [item_id |-> id, user_id |-> userID, state |-> "read"]
               \in rss_item_state'
          /\ recordedCount' = recordedCount + 1
     /\ rss_item_state' # rss_item_state => pc = "DBSetItemReadState"]_vars

\* An item was recorded for a feed polled before and not in archive mode, and
\* it has no read state.
C21_Witness ==
  /\ pc = "items"
  /\ Polled
  /\ ~feeds[feed].Archive
  /\ recordedCount = 1
  /\ \E r \in RowsOf(feed) : ~\E st \in rss_item_state : st.item_id = r.id

\* C23: for a feed polled before, shouldRecordItem, with the database
\* answering, says do not record, without error, for an item whose guid no row
\* of the feed has and whose link a row of the feed has, whatever the guid of
\* that row.
C23_StoredLinkNewGuidSkipped ==
  (/\ pc = "shouldRecordItem"
   /\ Polled
   /\ item.GUID # ""
   /\ ~\E r \in RowsOf(feed) : r.guid = item.GUID
   /\ \E r \in RowsOf(feed) : r.link = item.Link)
    => LET res == shouldRecordItem(rss_item, feed, feeds[feed].LastUpdateTime,
                                   item, cutoffTime, ignorePublicationTimes,
                                   TRUE)
       IN  ~res.record /\ ~res.err

\* C22: a response with a status that is not 2xx ends the cycle as a failed
\* fetch: while the cycle holds such a response, no row has been inserted from
\* its body and updateFeed has not returned without error (the position where
\* the time of the last poll is written is not reached).
C22_NonSuccessIsFetchError ==
  (httpResponse # NoResponse /\ ~(200 <= httpResponse /\ httpResponse < 300))
    => (insertedCount = 0 /\ pc # "recordFeedUpdate")

\* ------------------------------------------------------------------------
\* rss.ParseFeedXML on its own, one step per function it calls, on documents
\* of every kind.

\* What the steps of the poller's run hold.
mainvars == <<dbvars, now, runvars, pc, fi, status, cyclevars, feedsUpdated,
              lastCycle>>

SeqsUpTo(S, n) == UNION { [1..k -> S] : k \in 0..n }

\* <link> elements of a feed, and of an entry.
FeedLinks ==
  { [Href |-> "self1", Rel |-> "self"], [Href |-> "self2", Rel |-> "self"],
    [Href |-> "alt", Rel |-> "alternate"] }

EntryLinks ==
  { [Href |-> "e1", Rel |-> "alternate"], [Href |-> "e2", Rel |-> "" ] }

\* The <entry> number n of an Atom feed, with these <link> elements.
Entry(n, ls) ==
  [Title |-> IF n = 1 THEN "title1" ELSE "title2", Links |-> ls,
   ID |-> IF n = 1 THEN "id1" ELSE "id2", Updated |-> n,
   Content |-> IF n = 1 THEN "content1" ELSE ""]

Entries == { Entry(n, ls) : n \in {1, 2}, ls \in SeqsUpTo(EntryLinks, MaxLinks) }

\* Well-formed Atom feeds.
AtomDocuments ==
  { Document(XMLHeader, AtomNS, "feed", ls,
             << Entry(1, << [Href |-> "e1", Rel |-> "alternate"],
                            [Href |-> "e2", Rel |-> ""] >>) >>) :
      ls \in SeqsUpTo(FeedLinks, MaxLinks) }
    \cup { Document(XMLHeader, AtomNS, "feed",
                    << [Href |-> "alt", Rel |-> "alternate"] >>, es) :
             es \in SeqsUpTo(Entries, MaxEntries) }

\* First bytes of a buffer: empty, shorter than the prefix, the prefix, a
\* document with the declaration, with another version, without declaration.
Headers ==
  { << >>, << "<?xml" >>, << "<?xml", " version=1.0" >>, prefix, XMLHeader,
    << "<?xml", " version=1.1", " encoding=", "UTF-8?>" >>, HTMLHeader,
    << "<rss>" >> }

\* Root elements: none, those of the three dialects, others.
Roots ==
  { [xmlns |-> "", root |-> ""], [xmlns |-> "", root |-> "rss"],
    [xmlns |-> "", root |-> "RSS"], [xmlns |-> "", root |-> "rdf"],
    [xmlns |-> "", root |-> "RDF"], [xmlns |-> AtomNS, root |-> "feed"],
    [xmlns |-> "", root |-> "feed"], [xmlns |-> AtomNS, root |-> "FEED"],
    [xmlns |-> "", root |-> "html"] }

Documents ==
  { Document(h, r.xmlns, r.root, << >>,
             IF ToLower(r.root) \in {"rss", "rdf"} THEN << Item("a", "g1", 1) >>
             ELSE IF ToLower(r.root) = "feed" THEN << Entry(1, << >>) >>
             ELSE << >>) : h \in Headers, r \in Roots }
    \cup AtomDocuments

\* ParseFeedXML is called on data.
NewDecoder(data) ==
  [pc |-> "looksLikeXML", data |-> data, attempts |-> << >>,
   errRSS |-> Parsed("", << >>), errRDF |-> Parsed("", << >>),
   errAtom |-> Parsed("", << >>), ret |-> Parsed("", << >>)]

InitDecode ==
  /\ InitDB
  /\ InitRun
  /\ decoder \in { NewDecoder(d) : d \in Documents }
  /\ sanitiser = NoSanitiser
  /\ substrCall = NoSubstr
  /\ webapp = NoWebapp
  /\ orderings = NoOrderings
  /\ readCalls = << >>
  /\ pollers = NoPollers

\* ParseFeedXML: looksLikeXML; its error is returned.
CheckHeader ==
  /\ decoder.pc = "looksLikeXML"
  /\ LET err == looksLikeXML(decoder.data)
     IN  decoder' = IF err.err
                    THEN [decoder EXCEPT !.pc = "return", !.ret = err]
                    ELSE [decoder EXCEPT !.pc = "parseAsRSS"]
  /\ UNCHANGED <<mainvars, sanitiser, readCalls, pollers, substrCall, webapp, orderings>>

\* Variant: the channel of RSS is kept and RDF is tried all the same.
TryRSS_Continue ==
  /\ decoder.pc = "parseAsRSS"
  /\ LET res == parseAsRSS(decoder.data)
     IN  decoder' = [decoder EXCEPT !.attempts = Append(@, "RSS"),
                                    !.errRSS = res,
                                    !.ret = res,
                                    !.pc = "parseAsRDF"]
  /\ UNCHANGED <<mainvars, sanitiser, readCalls, pollers, substrCall, webapp, orderings>>

\* ParseFeedXML: parseAsRSS; its channel is returned when errRSS is nil.
TryRSS ==
  /\ decoder.pc = "parseAsRSS"
  /\ LET res == parseAsRSS(decoder.data)
     IN  decoder' = [decoder EXCEPT !.attempts = Append(@, "RSS"),
                                    !.errRSS = res,
                                    !.ret = IF res.err THEN @ ELSE res,
                                    !.pc = IF res.err THEN "parseAsRDF"
                                           ELSE "return"]
  /\ UNCHANGED <<mainvars, sanitiser, readCalls, pollers, substrCall, webapp, orderings>>

\* ParseFeedXML: parseAsRDF; its channel is returned when errRDF is nil.
TryRDF ==
  /\ decoder.pc = "parseAsRDF"
  /\ LET res == parseAsRDF(decoder.data)
     IN  decoder' = [decoder EXCEPT !.attempts = Append(@, "RDF"),
                                    !.errRDF = res,
                                    !.ret = IF res.err THEN @ ELSE res,
                                    !.pc = IF res.err THEN "parseAsAtom"
                                           ELSE "return"]
  /\ UNCHANGED <<mainvars, sanitiser, readCalls, pollers, substrCall, webapp, orderings>>

\* ParseFeedXML: parseAsAtom; its channel is returned when errAtom is nil,
\* else the error of ParseFeedXML.
TryAtom ==
  /\ decoder.pc = "parseAsAtom"
  /\ LET res == parseAsAtom(decoder.data)
     IN  decoder' = [decoder EXCEPT
                       !.attempts = Append(@, "Atom"),
                       !.errAtom = res,
                       !.ret = IF res.err
                               THEN ParseError("unable to parse as RSS, RDF, or Atom",
                                               << >>)
                               ELSE res,
                       !.pc = "return"]
  /\ UNCHANGED <<mainvars, sanitiser, readCalls, pollers, substrCall, webapp, orderings>>

NextDecode ==
  \/ CheckHeader
  \/ TryRSS
  \/ TryRDF
  \/ TryAtom

SpecDecode == InitDecode /\ [][NextDecode]_vars

\* The buffer begins with the prefix.
HasPrefix(data) ==
  /\ Len(data.header) >= Len(prefix)
  /\ SubSeq(data.header, 1, Len(prefix)) = prefix

\* C25: a buffer shorter than the prefix, or not beginning with it, is
\* rejected with the error of the header check, and no dialect is attempted
\* on it.
C25_NoPrefixRejectedFirst ==
  (decoder.pc # "none" /\ ~HasPrefix(decoder.data)) =>
    /\ decoder.pc \in {"looksLikeXML", "return"}
    /\ decoder.attempts = << >>
    /\ decoder.pc = "return" =>
         /\ decoder.ret.err
         /\ decoder.ret.msg \in {"buffer is too short to have XML header",
                                  "buffer does not have XML header"}

C25_Witness ==
  /\ decoder.pc = "return"
  /\ decoder.data.header = << "<?xml" >>
  /\ decoder.data.root = "rss"
  /\ decoder.ret.err

\* C26: the dialects are attempted in the order RSS, RDF, Atom, each only
\* after the ones before it failed; the channel returned is the one of the
\* first dialect that parses the buffer, and what the steps return is what
\* ParseFeedXML returns.
C26_DialectsInOrder ==
  decoder.pc # "none" =>
    /\ \E n \in 0..3 : decoder.attempts = SubSeq(<< "RSS", "RDF", "Atom" >>, 1, n)
    /\ Len(decoder.attempts) >= 2 => decoder.errRSS.err
    /\ Len(decoder.attempts) >= 3 => decoder.errRDF.err
    /\ (decoder.pc = "return" /\ ~decoder.ret.err) =>
         /\ decoder.attempts # << >>
         /\ decoder.ret =
              (CASE decoder.attempts[Len(decoder.attempts)] = "RSS" ->
                      parseAsRSS(decoder.data)
                 [] decoder.attempts[Len(decoder.attempts)] = "RDF" ->
                      parseAsRDF(decoder.data)
                 [] OTHER -> parseAsAtom(decoder.data))
    /\ decoder.pc = "return" => decoder.ret = ParseFeedXML(decoder.data)

C26_Witness ==
  /\ decoder.pc = "return"
  /\ decoder.attempts = << "RSS", "RDF" >>
  /\ ~decoder.ret.err
  /\ decoder.ret.Items = << Item("a", "g1", 1) >>

\* C27: when the three dialects fail, the error returned carries the error of
\* each of them.
C27_ErrorCarriesAttempts ==
  (decoder.pc = "return" /\ Len(decoder.attempts) = 3 /\ decoder.ret.err) =>
    \A e \in {decoder.errRSS, decoder.errRDF, decoder.errAtom} :
      \E i \in 1..Len(decoder.ret.causes) : decoder.ret.causes[i] = e.msg

\* C28: a well-formed Atom feed gives a channel with the href of the first
\* link with rel = "self" (empty without one) and one item per entry, in
\* order, made of the entry's id, first link, content, updated and title.
C28_AtomChannel ==
  (decoder.pc = "return" /\ decoder.data \in AtomDocuments) =>
    LET d == decoder.data
        ch == decoder.ret
    IN  /\ ~ch.err
        /\ IF \E i \in 1..Len(d.links) : d.links[i].Rel = "self"
           THEN \E i \in 1..Len(d.links) :
                  /\ d.links[i].Rel = "self"
                  /\ \A j \in 1..(i - 1) : d.links[j].Rel # "self"
                  /\ ch.Link = d.links[i].Href
           ELSE ch.Link = ""
        /\ Len(ch.Items) = Len(d.items)
        /\ \A i \in 1..Len(d.items) :
             /\ ch.Items[i].GUID = d.items[i].ID
             /\ ch.Items[i].Link = (IF d.items[i].Links = << >> THEN ""
                                    ELSE d.items[i].Links[1].Href)
             /\ ch.Items[i].Description = d.items[i].Content
             /\ ch.Items[i].PubDate = d.items[i].Updated
             /\ ch.Items[i].Title = d.items[i].Title

C28_Witness ==
  /\ decoder.pc = "return"
  /\ decoder.data \in AtomDocuments
  /\ decoder.data.links = << [Href |-> "alt", Rel |-> "alternate"],
                             [Href |-> "self1", Rel |-> "self"] >>
  /\ decoder.ret.Link = "self1"
  /\ Len(decoder.ret.Items) = 1
  /\ decoder.ret.Items[1].Link = "e1"

\* ------------------------------------------------------------------------
\* sanitiseItemText (src/gorse/html.go) on its own.  A text is the sequence
\* of its pieces: the characters < and >, the entities &lt; and &gt;, a
\* letter, a space and a newline.

Chars == {"<", ">", "&lt;", "&gt;", "p", " ", "\n"}

Texts == SeqsUpTo(Chars, MaxText)

\* Index of the first c in text, 0 when there is none.
Index(text, c) ==
  IF \E i \in 1..Len(text) : text[i] = c
  THEN CHOOSE i \in 1..Len(text) :
         text[i] = c /\ \A j \in 1..(i - 1) : text[j] # c
  ELSE 0

\* regexp (?s)<.*?> replaced by "": from each < to the nearest > after it.
RECURSIVE removeRawHTML(_)
removeRawHTML(text) ==
  LET i == Index(text, "<")
      rest == SubSeq(text, i + 1, Len(text))
      j == Index(rest, ">")
  IN  IF i = 0 \/ j = 0 THEN text
      ELSE SubSeq(text, 1, i - 1)
             \o removeRawHTML(SubSeq(rest, j + 1, Len(rest)))

\* html.UnescapeString
UnescapeString(text) ==
  [i \in 1..Len(text) |->
     CASE text[i] = "&lt;" -> "<"
       [] text[i] = "&gt;" -> ">"
       [] OTHER -> text[i]]

\* What \s matches.
isSpace(c) == c \in {" ", "\n"}

\* regexp (?s)\s+ replaced by " "
RECURSIVE collapseSpaces(_)
collapseSpaces(text) ==
  IF text = << >> THEN << >>
  ELSE IF isSpace(Head(text))
  THEN IF Len(text) > 1 /\ isSpace(text[2])
       THEN collapseSpaces(Tail(text))
       ELSE << " " >> \o collapseSpaces(Tail(text))
  ELSE << Head(text) >> \o collapseSpaces(Tail(text))

\* Variant: the entities are decoded before the raw HTML is removed.
sanitiseItemText_DecodeFirst(text) ==
  collapseSpaces(removeRawHTML(UnescapeString(text)))

sanitiseItemText(text) ==
  collapseSpaces(UnescapeString(removeRawHTML(text)))

InitSanitise ==
  /\ InitDB
  /\ InitRun
  /\ decoder = NoDecoder
  /\ substrCall = NoSubstr
  /\ webapp = NoWebapp
  /\ orderings = NoOrderings
  /\ sanitiser \in { [pc |-> "call", in |-> t, text |-> t] : t \in Texts }
  /\ readCalls = << >>
  /\ pollers = NoPollers

\* The call returns the sanitised text.
Sanitise ==
  /\ sanitiser.pc = "call"
  /\ sanitiser' = [sanitiser EXCEPT !.pc = "return",
                                    !.text = sanitiseItemText(sanitiser.in)]
  /\ UNCHANGED <<mainvars, decoder, readCalls, pollers, substrCall, webapp, orderings>>

NextSanitise == Sanitise

SpecSanitise == InitSanitise /\ [][NextSanitise]_vars

\* Occurrences of c in text.
Count(text, c) == Cardinality({ i \in 1..Len(text) : text[i] = c })

\* C29: tags are stripped before entities are decoded and whitespace is
\* collapsed last: &lt;p&gt; comes out as <p>; in a text without a literal <
\* every &lt; and &gt; comes out as < and >; from a text without entities no
\* < with a > after it is left; no newline and no two spaces in a row are left.
C29_StripDecodeCollapse ==
  sanitiser.pc = "return" =>
    LET in == sanitiser.in
        out == sanitiser.text
    IN  /\ in = << "&lt;", "p", "&gt;" >> => out = << "<", "p", ">" >>
        /\ Count(in, "<") = 0 =>
             /\ Count(out, "<") = Count(in, "&lt;")
             /\ Count(out, ">") = Count(in, "&gt;") + Count(in, ">")
        /\ (Count(in, "&lt;") = 0 /\ Count(in, "&gt;") = 0) =>
             ~\E i, j \in 1..Len(out) : i < j /\ out[i] = "<" /\ out[j] = ">"
        /\ Count(out, "\n") = 0
        /\ \A i \in 1..(Len(out) - 1) : ~(out[i] = " " /\ out[i + 1] = " ")
        /\ Count(out, "p") <= Count(in, "p")

C29_Witness ==
  /\ sanitiser.pc = "return"
  /\ sanitiser.in = << "<", "p", ">", "&lt;" >>
  /\ sanitiser.text = << "<" >>

\* ------------------------------------------------------------------------
\* gorse.DBSetItemReadState on its own: any caller (the poller, the web
\* application) sets any state of any item for any user.

\* The rows of rss_user, the values of read_state, and the ids callers pass:
\* those of two stored items and one of no item.
Users == {1, 2}

ReadStates == {"unread", "read", "read-later"}

ItemIDs == {1, 2, 3}

StoredItems ==
  { OldRow,
    [id |-> 2, rss_feed_id |-> 1, title |-> "", description |-> "",
     link |-> "a", guid |-> NullGuid, publication_date |-> 1] }

InitReadState ==
  /\ rss_feed = [f \in AllFeeds |-> [last_update_time |-> StartTime,
                                      last_payload |-> NullPayload,
                                      archive |-> (f = 1)]]
  /\ rss_item = StoredItems
  /\ rss_item_state \in {{}, {OldRowState}}
  /\ rss_item_id_seq = 3
  /\ InitRun
  /\ decoder = NoDecoder
  /\ sanitiser = NoSanitiser
  /\ substrCall = NoSubstr
  /\ webapp = NoWebapp
  /\ orderings = NoOrderings
  /\ readCalls = [p \in ItemIDs \X Users |->
                    IF p = <<OldRowState.item_id, OldRowState.user_id>>
                       /\ OldRowState \in rss_item_state
                    THEN OldRowState.state
                    ELSE "none"]
  /\ pollers = NoPollers

\* One call.  The statement fails for an id of no item (item_id REFERENCES
\* rss_item) or with the connection, and then leaves the table as it is.
CallDBSetItemReadState ==
  /\ \E i \in ItemIDs, u \in Users, st \in ReadStates :
       \/ /\ \E r \in rss_item : r.id = i
          /\ rss_item_state' = DBSetItemReadState(rss_item_state, i, u, st)
          /\ readCalls' = [readCalls EXCEPT ![<<i, u>>] = st]
       \/ UNCHANGED <<rss_item_state, readCalls>>
  /\ UNCHANGED <<rss_feed, rss_item, rss_item_id_seq, now, runvars, pc, fi,
                 status, cyclevars, feedsUpdated, lastCycle, decoder, sanitiser,
                 pollers, substrCall, webapp, orderings>>

NextReadState == CallDBSetItemReadState

SpecReadState == InitReadState /\ [][NextReadState]_vars

\* The records of rss_item_state of the pair (i, u).
StatesOf(states, i, u) == { s \in states : s.item_id = i /\ s.user_id = u }

\* C30: setting a read state is an upsert.  The table has at most one record
\* per (item, user), and it holds the state of the latest call for the pair;
\* a call leaves one record with its state for its pair and the records of
\* every other pair as they were.
C30_ReadStateUpsert ==
  /\ [](\A i \in ItemIDs, u \in Users :
          StatesOf(rss_item_state, i, u) =
            IF readCalls[<<i, u>>] = "none" THEN {}
            ELSE {[item_id |-> i, user_id |-> u, state |-> readCalls[<<i, u>>]]})
  /\ [][(rss_item_state' # rss_item_state \/ readCalls' # readCalls) =>
          \E i \in ItemIDs, u \in Users, st \in ReadStates :
            /\ readCalls' = [readCalls EXCEPT ![<<i, u>>] = st]
            /\ StatesOf(rss_item_state', i, u) =
                 {[item_id |-> i, user_id |-> u, state |-> st]}
            /\ rss_item_state' \ StatesOf(rss_item_state', i, u) =
                 rss_item_state \ StatesOf(rss_item_state, i, u)]_vars

C30_Witness ==
  /\ readCalls # << >>
  /\ readCalls[<<1, 1>>] = "unread"
  /\ rss_item_state =
       { [item_id |-> 1, user_id |-> 1, state |-> "unread"],
         [item_id |-> 2, user_id |-> 2, state |-> "read-later"] }

\* ------------------------------------------------------------------------
\* Two runs of the program at the same time (two cron invocations that
\* overlap).  Both have read the feeds and fetched and parsed the same
\* document of feed 1 before either writes; from there each runs updateFeed
\* statement by statement on the shared tables.  The connection does not
\* fail: the errors are those of the statements.

Procs == {1, 2}

\* The batches of feed 1.
Batches ==
  { ParseFeedXML(b).Items : b \in { d \in Payloads(1) : ~ParseFeedXML(d).err } }

\* updateFeed of a run, after the parse, with its updateTime.  passed and
\* inserted are history: the items shouldRecordItem accepted, and those the
\* run inserted.
NewPoller(items, t) ==
  [pc |-> "getFeedCutoffTime", updateTime |-> t, channel |-> items,
   cutoffTime |-> ZeroTime, ii |-> 1, recordedCount |-> 0, id |-> 0,
   passed |-> {}, inserted |-> {}]

InitConcurrent ==
  /\ InitDB
  /\ InitRun
  /\ decoder = NoDecoder
  /\ sanitiser = NoSanitiser
  /\ substrCall = NoSubstr
  /\ webapp = NoWebapp
  /\ orderings = NoOrderings
  /\ readCalls = << >>
  /\ \E items \in Batches :
       pollers \in [Procs -> { NewPoller(items, t) :
                                 t \in (StartTime + 1)..MaxTime }]

\* What the steps of the two runs leave alone.
concurrentframe == <<now, runvars, pc, fi, status, cyclevars, feedsUpdated,
                     lastCycle, decoder, sanitiser, readCalls,
                     substrCall, webapp, orderings>>

PollerGetFeedCutoffTime(p) ==
  /\ pollers[p].pc = "getFeedCutoffTime"
  /\ pollers' = [pollers EXCEPT
                   ![p].cutoffTime = getFeedCutoffTime(rss_item, feed),
                   ![p].ii = 1,
                   ![p].pc = "items"]
  /\ UNCHANGED <<dbvars, concurrentframe>>

PollerNextItem(p) ==
  /\ pollers[p].pc = "items"
  /\ pollers' =
       IF pollers[p].ii > Len(pollers[p].channel)
       THEN [pollers EXCEPT ![p].pc = "recordFeedUpdate"]
       ELSE IF pollers[p].channel[pollers[p].ii].Link = ""
       THEN [pollers EXCEPT ![p].ii = @ + 1]
       ELSE [pollers EXCEPT ![p].pc = "shouldRecordItem"]
  /\ UNCHANGED <<dbvars, concurrentframe>>

PollerShouldRecordItem(p) ==
  /\ pollers[p].pc = "shouldRecordItem"
  /\ LET res == shouldRecordItem(rss_item, feed, feeds[feed].LastUpdateTime,
                                 pollers[p].channel[pollers[p].ii],
                                 pollers[p].cutoffTime, ignorePublicationTimes,
                                 TRUE)
     IN  IF res.err
         THEN /\ pollers' = [pollers EXCEPT ![p].pc = "failed"]
              /\ UNCHANGED rss_item
         ELSE /\ rss_item' = res.items
              /\ pollers' =
                   IF res.record
                   THEN [pollers EXCEPT ![p].pc = "insert",
                                        ![p].passed = @ \cup {pollers[p].ii}]
                   ELSE [pollers EXCEPT ![p].pc = "items", ![p].ii = @ + 1]
  /\ UNCHANGED <<rss_feed, rss_item_state, rss_item_id_seq, concurrentframe>>

PollerInsertItem(p) ==
  /\ pollers[p].pc = "insert"
  /\ LET res == insertItem(rss_item, rss_item_id_seq, feed,
                           pollers[p].channel[pollers[p].ii])
     IN  /\ rss_item_id_seq' = rss_item_id_seq + 1
         /\ IF res.err
            THEN /\ pollers' = [pollers EXCEPT ![p].pc = "failed"]
                 /\ UNCHANGED rss_item
            ELSE /\ rss_item' = res.items
                 /\ pollers' =
                      IF setsRead(feed)
                      THEN [pollers EXCEPT
                              ![p].id = rss_item_id_seq,
                              ![p].inserted = @ \cup {pollers[p].ii},
                              ![p].pc = "DBSetItemReadState"]
                      ELSE [pollers EXCEPT
                              ![p].id = rss_item_id_seq,
                              ![p].inserted = @ \cup {pollers[p].ii},
                              ![p].recordedCount = @ + 1,
                              ![p].ii = @ + 1,
                              ![p].pc = "items"]
  /\ UNCHANGED <<rss_feed, rss_item_state, concurrentframe>>

PollerSetItemReadState(p) ==
  /\ pollers[p].pc = "DBSetItemReadState"
  /\ rss_item_state' = DBSetItemReadState(rss_item_state, pollers[p].id, userID,
                                          "read")
  /\ pollers' = [pollers EXCEPT ![p].recordedCount = @ + 1,
                                ![p].ii = @ + 1,
                                ![p].pc = "items"]
  /\ UNCHANGED <<rss_feed, rss_item, rss_item_id_seq, concurrentframe>>

PollerRecordFeedUpdate(p) ==
  /\ pollers[p].pc = "recordFeedUpdate"
  /\ rss_feed' = [rss_feed EXCEPT
                    ![feed].last_update_time = pollers[p].updateTime]
  /\ pollers' = [pollers EXCEPT ![p].pc = "updated"]
  /\ UNCHANGED <<rss_item, rss_item_state, rss_item_id_seq, concurrentframe>>

NextConcurrent ==
  \/ \E p \in Procs : PollerGetFeedCutoffTime(p)
  \/ \E p \in Procs : PollerNextItem(p)
  \/ \E p \in Procs : PollerShouldRecordItem(p)
  \/ \E p \in Procs : PollerInsertItem(p)
  \/ \E p \in Procs : PollerSetItemReadState(p)
  \/ \E p \in Procs : PollerRecordFeedUpdate(p)

SpecConcurrent == InitConcurrent /\ [][NextConcurrent]_vars

\* The run p has accepted item k and its INSERT of it has returned.
InsertReturned(p, k) ==
  /\ k \in pollers[p].passed
  /\ ~(pollers[p].pc = "insert" /\ pollers[p].ii = k)

\* C24: with two runs interleaved on the same feed and batch, no two rows of
\* the feed share a link or a guid; when both runs accepted the same item and
\* both INSERTs have returned, one run inserted it and the other failed at it;
\* and the time of the last poll is the one the runs found or the updateTime
\* of a run that did not fail.
C24_ConcurrentRunsKeepUnique ==
  pollers # NoPollers =>
    /\ \A r1, r2 \in RowsOf(feed) :
         r1 # r2 => /\ r1.link # r2.link
                    /\ r1.guid = r2.guid => r1.guid = NullGuid
    /\ \A k \in 1..Len(pollers[1].channel) :
         (InsertReturned(1, k) /\ InsertReturned(2, k)) =>
           \E p \in Procs :
             /\ k \in pollers[p].inserted
             /\ k \notin pollers[3 - p].inserted
             /\ pollers[3 - p].pc = "failed"
             /\ pollers[3 - p].ii = k
    /\ rss_feed[feed].last_update_time \in
         {feeds[feed].LastUpdateTime}
           \cup { pollers[p].updateTime :
                    p \in { q \in Procs : pollers[q].pc = "updated" } }

C24_Witness ==
  /\ pollers # NoPollers
  /\ InsertReturned(1, 1) /\ InsertReturned(2, 1)
  /\ 1 \in pollers[2].inserted
  /\ pollers[1].pc = "failed"
  /\ pollers[2].pc = "updated"
  /\ Polled
  /\ rss_feed[feed].last_update_time = pollers[2].updateTime

\* ------------------------------------------------------------------------
\* substr (src/cmd/gorse/gorse.go) on its own.  A string is the sequence of
\* its bytes; the characters are h (one byte), e-acute (C3 A9) and the snowman
\* (E2 98 83).

Characters == {"h", "e-acute", "snowman"}

\* The UTF-8 encoding of a character.
EncodeRune(c) ==
  CASE c = "h" -> << "68" >>
    [] c = "e-acute" -> << "C3", "A9" >>
    [] OTHER -> << "E2", "98", "83" >>

\* string(chars)
RECURSIVE EncodeString(_)
EncodeString(chars) ==
  IF chars = << >> THEN << >>
  ELSE EncodeRune(Head(chars)) \o EncodeString(Tail(chars))

\* A continuation byte.
isContinuation(b) == b \in {"A9", "98", "83"}

\* `for j := range s`: the bytes the rune at offset j takes; a byte that
\* begins no complete encoding is one rune.
runeWidth(s, j) ==
  IF s[j] = "C3" /\ j + 1 <= Len(s) /\ isContinuation(s[j + 1]) THEN 2
  ELSE IF /\ s[j] = "E2" /\ j + 2 <= Len(s)
          /\ isContinuation(s[j + 1]) /\ isContinuation(s[j + 2]) THEN 3
  ELSE 1

\* The loop of substr with i runes counted and the next rune at byte j
\* (bytes are numbered from 1 here, so s[:j] is the first j - 1 bytes).
RECURSIVE substrLoop(_, _, _, _)
substrLoop(s, n, i, j) ==
  IF j > Len(s) THEN s
  ELSE IF i = n THEN SubSeq(s, 1, j - 1)
  ELSE substrLoop(s, n, i + 1, j + runeWidth(s, j))

\* Variant: the first n bytes.
substr_Bytes(s, n) ==
  IF n < 0 \/ n >= Len(s) THEN s ELSE SubSeq(s, 1, n)

substr(s, n) == substrLoop(s, n, 0, 1)

\* substr is called on the string of these characters; chars is history.
InitSubstr ==
  /\ InitDB
  /\ InitRun
  /\ decoder = NoDecoder
  /\ sanitiser = NoSanitiser
  /\ readCalls = << >>
  /\ pollers = NoPollers
  /\ webapp = NoWebapp
  /\ orderings = NoOrderings
  /\ substrCall \in { [pc |-> "call", chars |-> cs, s |-> EncodeString(cs),
                        n |-> n, ret |-> << >>] :
                         cs \in SeqsUpTo(Characters, MaxChars),
                         n \in (-1)..(MaxChars + 1) }

Substr ==
  /\ substrCall.pc = "call"
  /\ substrCall' = [substrCall EXCEPT
                      !.pc = "return",
                      !.ret = substr(substrCall.s, substrCall.n)]
  /\ UNCHANGED <<mainvars, decoder, sanitiser, readCalls, pollers, webapp, orderings>>

NextSubstr == Substr

SpecSubstr == InitSubstr /\ [][NextSubstr]_vars

\* C31: for n >= 0 substr returns the encoding of the first min(n, number of
\* characters) characters of s, and s itself when it has at most n characters.
C31_SubstrCountsCharacters ==
  (substrCall.pc = "return" /\ substrCall.n >= 0) =>
    LET cs == substrCall.chars
        m == IF substrCall.n < Len(cs) THEN substrCall.n ELSE Len(cs)
    IN  /\ substrCall.ret = EncodeString(SubSeq(cs, 1, m))
        /\ Len(cs) <= substrCall.n => substrCall.ret = substrCall.s

C31_Witness ==
  /\ substrCall.pc = "return"
  /\ substrCall.chars = << "h", "snowman", "h" >>
  /\ substrCall.n = 2
  /\ substrCall.ret = << "68", "E2", "98", "83" >>

\* ------------------------------------------------------------------------
\* Further properties of the run of the poller.

\* C32: a row of rss_item is never deleted and its feed, title, description,
\* link and publication date never change; its guid changes only from NULL to
\* a value.
C32_StoredItemsImmutable ==
  [][\A r \in rss_item :
       \E r2 \in rss_item' :
         /\ r2.id = r.id
         /\ r2.rss_feed_id = r.rss_feed_id
         /\ r2.title = r.title
         /\ r2.description = r.description
         /\ r2.link = r.link
         /\ r2.publication_date = r.publication_date
         /\ r.guid # NullGuid => r2.guid = r.guid]_vars

C32_Witness ==
  /\ pc = "shouldRecordItem"
  /\ item = Item("b", "g2", 3)
  /\ [OldRow EXCEPT !.guid = "g1"] \in rss_item

\* The step ends the cycle of the feed as failed and writes no table.
CycleFails ==
  /\ pc' = "processFeeds"
  /\ fi' = fi + 1
  /\ status'[feed] = "failed"
  /\ rss_feed' = rss_feed
  /\ rss_item' = rss_item
  /\ rss_item_state' = rss_item_state

\* C33: an error of the existence check or the guid backfill, of the INSERT
\* (no row is added) or of the read-state write (no state is written) on an
\* item ends the cycle as failed; and until the run ends, the rows and the
\* time of the last poll of a failed feed do not change.
C33_ItemErrorAbortsCycle ==
  [][/\ (/\ pc = "shouldRecordItem"
          /\ shouldRecordItem(rss_item, feed, feeds[feed].LastUpdateTime, item,
                              cutoffTime, ignorePublicationTimes, TRUE).err)
         => CycleFails
     /\ (pc = "insert" /\ rss_item' = rss_item) => CycleFails
     /\ (pc = "DBSetItemReadState" /\ rss_item_state' = rss_item_state)
         => CycleFails
     /\ \A f \in Feeds :
          (status[f] = "failed" /\ status'[f] = "failed") =>
            /\ { r \in rss_item' : r.rss_feed_id = f } = RowsOf(f)
            /\ rss_feed'[f] = rss_feed[f]]_vars

C33_Witness ==
  /\ status[1] = "failed"
  /\ rss_feed[1].last_update_time = NullTime
  /\ rss_feed[1].last_payload.items = << Item("a", "", 1), Item("b", "", 3) >>
  /\ \E r \in rss_item : r.link = "a"
  /\ ~\E r \in rss_item : r.link = "b"
  /\ rss_item_state = {}

\* C34: a feed that is not active is never fetched, and no step of any run
\* changes its row of rss_feed (poll time, payload), its rows of rss_item or
\* their read states; so with -ignore-poll-times, and so when -feed-name
\* names it, which ends the run before any feed is processed.
C34_InactiveFeedUntouched ==
  [][\A f \in AllFeeds : ~Active(f) =>
       /\ ~(pc' = "retrieveFeed" /\ fi' \in 1..Len(FeedOrder) /\ FeedOrder[fi'] = f)
       /\ rss_feed'[f] = rss_feed[f]
       /\ {r \in rss_item' : r.rss_feed_id = f} = RowsOf(f)
       /\ {s \in rss_item_state' : \E r \in rss_item' :
             r.rss_feed_id = f /\ r.id = s.item_id}
          = {s \in rss_item_state : \E r \in RowsOf(f) : r.id = s.item_id}
       /\ (pc = "idle" /\ pc' = "idle" /\ runs' = runs + 1) =>
            (rss_feed' = rss_feed /\ rss_item' = rss_item
             /\ rss_item_state' = rss_item_state)]_vars

\* A run with -ignore-poll-times and -feed-name naming the inactive feed has
\* ended after an earlier run fetched feeds and stored an item: the inactive feed is as it was.
C34_Witness ==
  /\ pc = "idle"
  /\ runs = 2
  /\ ignorePollTimes
  /\ \A f \in Feeds : status[f] = "pending"
  /\ rss_feed[1].last_payload # NullPayload
  /\ \E r \in rss_item : r.rss_feed_id = 2
  /\ rss_feed[3] = [last_update_time |-> NullTime, last_payload |-> NullPayload,
                    archive |-> FALSE]
  /\ RowsOf(3) = {}

\* C35: no row of rss_item has an empty link, whatever the feed (never
\* polled or polled), the guid of the item and the flag
\* -ignore-publication-times; the loop has passed over an item without link
\* without a row for it.
C35_NoStoredItemWithoutLink ==
  /\ \A r \in rss_item : r.link # ""
  /\ (pc \in {"shouldRecordItem", "insert", "DBSetItemReadState"}) => item.Link # ""

\* The loop went past an item without link that carries a guid, in a cycle of
\* a never polled feed with -ignore-publication-times, and stored the item
\* after it.
C35_Witness ==
  /\ pc = "recordFeedUpdate"
  /\ channel = << Item("", "g1", 1), Item("b", "", 3) >>
  /\ ~Polled
  /\ ignorePublicationTimes
  /\ recordedCount = 1
  /\ \E r \in RowsOf(feed) : r.link = "b"

\* ------------------------------------------------------------------------
\* updateFeed on two orderings of one batch.

\* Most items of a batch.
MaxBatch == 2

\* Links no row holds.
LinkNames == <<"c", "d", "e", "f">>

\* The batches of k items without guid whose links differ pairwise.
BatchesOf(k) ==
  { b \in [1..k -> { Item(LinkNames[i], "", d) : i \in 1..k, d \in 1..MaxTime }] :
      \A i, j \in 1..k : i # j => b[i].Link # b[j].Link }

\* updateFeed of feed 1 after the parse, on a copy of the tables.
NewOrdering(items) ==
  [pc |-> "getFeedCutoffTime", channel |-> items, cutoffTime |-> ZeroTime,
   ii |-> 1, recordedCount |-> 0, rss_item |-> rss_item,
   rss_item_state |-> rss_item_state, rss_item_id_seq |-> rss_item_id_seq,
   admitted |-> {}]

InitOrder ==
  /\ InitDB
  /\ InitRun
  /\ decoder = NoDecoder
  /\ sanitiser = NoSanitiser
  /\ readCalls = << >>
  /\ pollers = NoPollers
  /\ substrCall = NoSubstr
  /\ webapp = NoWebapp
  /\ \E k \in 1..MaxBatch, ipub \in BOOLEAN :
       \E b1 \in BatchesOf(k), b2 \in BatchesOf(k) :
         /\ {b1[i] : i \in 1..k} = {b2[i] : i \in 1..k}
         /\ orderings = [ignorePublicationTimes |-> ipub,
                         run |-> <<NewOrdering(b1), NewOrdering(b2)>>]

orderframe == <<mainvars, decoder, sanitiser, readCalls, pollers, substrCall,
                webapp>>

\* The second ordering is run when the first has ended.
OrderTurn(k) == k = 1 \/ orderings.run[1].pc \in {"done", "failed"}

\* updateFeed: the cutoff time, before the loop over channel.Items.
OrderGetFeedCutoffTime(k) ==
  /\ OrderTurn(k)
  /\ orderings.run[k].pc = "getFeedCutoffTime"
  /\ orderings' = [orderings EXCEPT
                     !.run[k].cutoffTime =
                        getFeedCutoffTime(orderings.run[k].rss_item, feed),
                     !.run[k].pc = "items"]
  /\ UNCHANGED orderframe

\* One pass of the loop over channel.Items with the cutoff time given:
\* the test of the link, then recordFeedItem (shouldRecordItem, the INSERT,
\* DBSetItemReadState).
OrderItem(k, cutoff) ==
  LET run == orderings.run[k]
      it == run.channel[run.ii]
      res == shouldRecordItem(run.rss_item, feed, feeds[feed].LastUpdateTime,
                              it, cutoff, orderings.ignorePublicationTimes,
                              TRUE)
      ins == insertItem(res.items, run.rss_item_id_seq, feed, it)
  IN  /\ OrderTurn(k)
      /\ run.pc = "items"
      /\ run.ii <= Len(run.channel)
      /\ orderings' =
           IF it.Link = ""
           THEN [orderings EXCEPT !.run[k].ii = @ + 1]
           ELSE IF res.err
           THEN [orderings EXCEPT !.run[k].pc = "failed"]
           ELSE IF ~res.record
           THEN [orderings EXCEPT !.run[k].rss_item = res.items,
                                  !.run[k].ii = @ + 1]
           ELSE IF ins.err
           THEN [orderings EXCEPT !.run[k].rss_item = res.items,
                                  !.run[k].rss_item_id_seq = @ + 1,
                                  !.run[k].pc = "failed"]
           ELSE [orderings EXCEPT
                   !.run[k].rss_item = ins.items,
                   !.run[k].rss_item_id_seq = @ + 1,
                   !.run[k].rss_item_state =
                      IF setsRead(feed)
                      THEN DBSetItemReadState(@, run.rss_item_id_seq, userID,
                                              "read")
                      ELSE @,
                   !.run[k].admitted = @ \cup {it},
                   !.run[k].recordedCount = @ + 1,
                   !.run[k].ii = @ + 1]
      /\ UNCHANGED orderframe

\* Variant: the cutoff time is read again from the table for every item.
OrderRecordFeedItem_Recompute(k) ==
  OrderItem(k, getFeedCutoffTime(orderings.run[k].rss_item, feed))

\* The loop uses the cutoff time computed before it.
OrderRecordFeedItem(k) == OrderItem(k, orderings.run[k].cutoffTime)

\* After the last item updateFeed returns nil.
OrderEndOfItems(k) ==
  /\ OrderTurn(k)
  /\ orderings.run[k].pc = "items"
  /\ orderings.run[k].ii > Len(orderings.run[k].channel)
  /\ orderings' = [orderings EXCEPT !.run[k].pc = "done"]
  /\ UNCHANGED orderframe

NextOrder ==
  \/ \E k \in {1, 2} : OrderGetFeedCutoffTime(k)
  \/ \E k \in {1, 2} : OrderRecordFeedItem(k)
  \/ \E k \in {1, 2} : OrderEndOfItems(k)

SpecOrder == InitOrder /\ [][NextOrder]_vars

\* C36: the cutoff time of a run is the one of the table as it was before the
\* first item was decided on, at every position of the loop, whatever the run
\* has inserted since; and for items without guid with pairwise different
\* new links, two runs on two orderings of the batch admit the same items and
\* add the same rows (ids aside).
C36_AdmissionOrderIndependent ==
  orderings # NoOrderings =>
    /\ \A k \in {1, 2} :
         orderings.run[k].pc \in {"items", "done"} =>
           orderings.run[k].cutoffTime = getFeedCutoffTime(rss_item, feed)
    /\ \A k \in {1, 2} : orderings.run[k].pc # "failed"
    /\ (orderings.run[1].pc = "done" /\ orderings.run[2].pc = "done") =>
         /\ orderings.run[1].admitted = orderings.run[2].admitted
         /\ { [r EXCEPT !.id = 0] : r \in orderings.run[1].rss_item \ rss_item }
            = { [r EXCEPT !.id = 0] : r \in orderings.run[2].rss_item \ rss_item }

\* Both orderings of a batch of a later and an earlier item were run on a
\* polled feed without rows: the later item went in first in one of them, and
\* both items were admitted in both.
C36_Witness ==
  /\ orderings # NoOrderings
  /\ feeds[feed].LastUpdateTime # NullTime
  /\ ~orderings.ignorePublicationTimes
  /\ orderings.run[1].pc = "done"
  /\ orderings.run[2].pc = "done"
  /\ orderings.run[1].channel = << Item("c", "", 3), Item("d", "", 1) >>
  /\ orderings.run[2].channel = << Item("d", "", 1), Item("c", "", 3) >>
  /\ orderings.run[1].admitted = {Item("c", "", 3), Item("d", "", 1)}
  /\ orderings.run[2].admitted = orderings.run[1].admitted

\* ------------------------------------------------------------------------
\* Further properties of the run of the poller (continued).

\* The item carries a guid no row of the feed has, and its link is the one of
\* a row of the feed that has another guid.
Mismatch(it) ==
  /\ it.GUID # ""
  /\ it.Link # ""
  /\ ~\E r \in RowsOf(feed) : r.guid = it.GUID
  /\ \E r \in RowsOf(feed) :
       r.link = it.Link /\ r.guid # NullGuid /\ r.guid # it.GUID

C38_OnlyReadOnInsertedItem ==
  [][/\ rss_item_state' # rss_item_state =>
          /\ pc = "DBSetItemReadState"
          /\ userID = 1
          /\ rss_item_state' =
               rss_item_state \cup {[item_id |-> id, user_id |-> 1, state |-> "read"]}
          /\ ~\E s \in rss_item_state : s.item_id = id
          /\ NewRow(id, feed, item) \in rss_item
     /\ pc' = "DBSetItemReadState" =>
          /\ pc = "insert"
          /\ id' \notin {r.id : r \in rss_item}
          /\ rss_item' = rss_item \cup {NewRow(id', feed, item)}
     /\ (\E r \in rss_item : \E r2 \in rss_item' : r2.id = r.id /\ r2.guid # r.guid) =>
          rss_item_state' = rss_item_state
    ]_vars

\* The old row, set read before the poller tracked guids, got its guid from a
\* cycle and kept its record; a later cycle of the archive feed inserted an
\* item and set it read.
C38_Witness ==
  /\ [OldRow EXCEPT !.guid = "g1"] \in rss_item
  /\ rss_item_state = {OldRowState, [item_id |-> 2, user_id |-> 1, state |-> "read"]}
  /\ \E r \in rss_item : r.id = 2 /\ r.rss_feed_id = 1
  /\ runs = 2
  /\ pc = "items"
  /\ recordedCount = 1

\* ------------------------------------------------------------------------
\* getDB of the web application, called by its request goroutines.

\* Most goroutines serving requests at a time, and most connections opened.
MaxGoroutines == 2

MaxHandles == 2

Goroutines == 1..MaxGoroutines

\* The nil *sql.DB; the handles connectToDB returns are 1, 2, ...
NoHandle == 0

\* No goroutine holds DBLock.
Unlocked == 0

\* The application after main: var DB *sql.DB is nil, DBLock is free, no
\* request is being served.  closed and opened are history: the handles
\* DB.Close was called on, and how many connectToDB has returned.
InitWeb ==
  /\ InitDB
  /\ InitRun
  /\ decoder = NoDecoder
  /\ sanitiser = NoSanitiser
  /\ readCalls = << >>
  /\ pollers = NoPollers
  /\ substrCall = NoSubstr
  /\ orderings = NoOrderings
  /\ webapp = [DB |-> NoHandle, DBLock |-> Unlocked, closed |-> {},
               opened |-> 0,
               goroutine |-> [g \in Goroutines |->
                                [pc |-> "idle", ret |-> NoHandle]]]

webframe == <<mainvars, decoder, sanitiser, readCalls, pollers, substrCall,
              orderings>>

\* ServeHTTP: a request arrives and its handler calls getDB.
ServeHTTP(g) ==
  /\ webapp.goroutine[g].pc = "idle"
  /\ webapp' = [webapp EXCEPT !.goroutine[g].pc = "getDB"]
  /\ UNCHANGED webframe

\* getDB: if DB != nil, read without DBLock.
GetDBCheck(g) ==
  /\ webapp.goroutine[g].pc = "getDB"
  /\ webapp' = [webapp EXCEPT
                  !.goroutine[g].pc =
                     IF webapp.DB # NoHandle THEN "ping" ELSE "lock"]
  /\ UNCHANGED webframe

\* getDB: err := DB.Ping(), DB read again without DBLock.  A nil DB panics;
\* a closed handle fails the ping; an open one answers or not.
GetDBPing(g) ==
  /\ webapp.goroutine[g].pc = "ping"
  /\ IF webapp.DB = NoHandle
     THEN webapp' = [webapp EXCEPT !.goroutine[g].pc = "panicked"]
     ELSE \E ok \in BOOLEAN :
            /\ ok => webapp.DB \notin webapp.closed
            /\ webapp' = [webapp EXCEPT
                            !.goroutine[g].pc =
                               IF ok THEN "return" ELSE "lockToClose"]
  /\ UNCHANGED webframe

\* getDB: return DB, nil after the ping, DB read a third time without DBLock.
GetDBReturn(g) ==
  /\ webapp.goroutine[g].pc = "return"
  /\ webapp' = [webapp EXCEPT !.goroutine[g].ret = webapp.DB,
                              !.goroutine[g].pc = "returned"]
  /\ UNCHANGED webframe

\* getDB: DBLock.Lock() after the failed ping.
GetDBLockToClose(g) ==
  /\ webapp.goroutine[g].pc = "lockToClose"
  /\ webapp.DBLock = Unlocked
  /\ webapp' = [webapp EXCEPT !.DBLock = g,
                              !.goroutine[g].pc = "close"]
  /\ UNCHANGED webframe

\* getDB: if DB != nil { DB.Close(); DB = nil }, then DBLock.Unlock().
GetDBClose(g) ==
  /\ webapp.goroutine[g].pc = "close"
  /\ webapp' = [webapp EXCEPT
                  !.closed = IF webapp.DB # NoHandle
                             THEN @ \cup {webapp.DB} ELSE @,
                  !.DB = NoHandle,
                  !.goroutine[g].pc = "unlock"]
  /\ UNCHANGED webframe

GetDBUnlock(g) ==
  /\ webapp.goroutine[g].pc = "unlock"
  /\ webapp' = [webapp EXCEPT !.DBLock = Unlocked,
                              !.goroutine[g].pc = "lock"]
  /\ UNCHANGED webframe

\* getDB: DBLock.Lock(); defer DBLock.Unlock().
GetDBLock(g) ==
  /\ webapp.goroutine[g].pc = "lock"
  /\ webapp.DBLock = Unlocked
  /\ webapp' = [webapp EXCEPT !.DBLock = g,
                              !.goroutine[g].pc = "locked"]
  /\ UNCHANGED webframe

\* getDB under DBLock: DB is returned when set; else connectToDB, whose
\* handle is stored in DB and returned, or whose error is returned.
GetDBConnect(g) ==
  /\ webapp.goroutine[g].pc = "locked"
  /\ IF webapp.DB # NoHandle
     THEN webapp' = [webapp EXCEPT !.goroutine[g].ret = webapp.DB,
                                   !.goroutine[g].pc = "returned",
                                   !.DBLock = Unlocked]
     ELSE \/ /\ webapp.opened < MaxHandles
             /\ webapp' = [webapp EXCEPT !.DB = webapp.opened + 1,
                                         !.opened = @ + 1,
                                         !.goroutine[g].ret = webapp.opened + 1,
                                         !.goroutine[g].pc = "returned",
                                         !.DBLock = Unlocked]
          \/ webapp' = [webapp EXCEPT !.goroutine[g].ret = NoHandle,
                                      !.goroutine[g].pc = "returned",
                                      !.DBLock = Unlocked]
  /\ UNCHANGED webframe

\* The handler has used what getDB returned, or has panicked: the request is
\* over.
EndRequest(g) ==
  /\ webapp.goroutine[g].pc \in {"returned", "panicked"}
  /\ webapp' = [webapp EXCEPT !.goroutine[g].ret = NoHandle,
                              !.goroutine[g].pc = "idle"]
  /\ UNCHANGED webframe

NextWeb ==
  \/ \E g \in Goroutines : ServeHTTP(g)
  \/ \E g \in Goroutines : GetDBCheck(g)
  \/ \E g \in Goroutines : GetDBPing(g)
  \/ \E g \in Goroutines : GetDBReturn(g)
  \/ \E g \in Goroutines : GetDBLockToClose(g)
  \/ \E g \in Goroutines : GetDBClose(g)
  \/ \E g \in Goroutines : GetDBUnlock(g)
  \/ \E g \in Goroutines : GetDBLock(g)
  \/ \E g \in Goroutines : GetDBConnect(g)
  \/ \E g \in Goroutines : EndRequest(g)

SpecWeb == InitWeb /\ [][NextWeb]_vars

\* C39: under every interleaving of the goroutines in getDB, the handle a
\* request holds from getDB has not been closed by a getDB call, no goroutine
\* panics on a nil DB, and a goroutine whose next statement reads or writes DB
\* holds DBLock.
C39_GetDBHandleNotClosed ==
  webapp # NoWebapp =>
    \A g \in Goroutines :
      /\ webapp.goroutine[g].pc = "returned" =>
           webapp.goroutine[g].ret \notin webapp.closed
      /\ webapp.goroutine[g].pc # "panicked"
      /\ webapp.goroutine[g].pc \in {"getDB", "ping", "return", "close", "locked"}
           => webapp.DBLock = g

====
